---- MODULE Spec2Model ----
(***************************************************************************)
(* rpi5-fast-irq: the mapped (zero-copy) event transport.                  *)
(*                                                                         *)
(* Producer: gpio_isr of kernel_module/rpi_fast_irq.c, one interrupt at a  *)
(* time (the line is not re-entrant), split at every store it makes to the *)
(* shared region.  Consumer: RpiFastIrq (start, stop, listener thread) of  *)
(* the v2.0.0 RpiFastIrq.cpp, split at every access to the shared region,  *)
(* so that the slot copy of the listener interleaves with the field writes *)
(* of the interrupt handler.  Memory is sequentially consistent: the       *)
(* release store of head and the acquire load of head give the order of    *)
(* the handler's program text to every observer of the new head.           *)
(*                                                                         *)
(* Scaling.  The source has KBUF_SIZE = 256 = 2^8 and u32 cursors.  The    *)
(* model keeps the capacity a power of two, 2^KBufBits, and keeps the      *)
(* cursors in a fixed width (U32) that the capacity divides; the           *)
(* module is taken up either right after insmod or after it has already    *)
(* served interrupts with no listener attached up to WrapLead short of the *)
(* cursor wrap, so that the wrap of head, tail and total_interrupts is     *)
(* reached within a few interrupts.                                       *)
(*                                                                         *)
(* Further components have their own variables and specifications and     *)
(* stand still in the specification of the transport: the secondary queue  *)
(* of the applications (LockFreeRingBuffer of Basic_usage/main.cpp and     *)
(* Benchmark/benchmark.cpp, SpecQueue), and the attach path with the byte  *)
(* layout of the region (open, mmap and dev_mmap, the struct declarations  *)
(* of the kernel module and of the RpiFastIrq.hpp headers, SpecAttach).    *)
(* The layout is computed with the real capacity of 256 slots.             *)
(* The v1.0 kernel module (spinlock-protected ring, read()) with a process *)
(* in read() is SpecRead; the listener of Benchmark/RpiFastIrq.cpp, which  *)
(* uses poll() and read() on that module, is SpecBench; the consumer loop  *)
(* of Benchmark/benchmark.cpp with its dropped-event counter is            *)
(* SpecConsumer.                                                           *)
(***************************************************************************)
EXTENDS Integers, Sequences, FiniteSets, TLC

\* ---------------------------------------------------------------- bounds
KBufBits == 1
\* interrupts served in one behaviour, beyond the capacity
ExtraIrq == 5
\* distance from the cursor wrap at which the second initial state starts
WrapLead == 3
\* capacity of the secondary queue (Size; 1024 in the applications)
QSize == 2
\* calls of push in one behaviour
MaxPush == 5

\* -------------------------------------------------------------- constants
\* #define KBUF_SIZE 256
KBUF_SIZE == 2 ^ KBufBits
\* the modulus of the u32 head, tail, event_counter and total_interrupts,
\* scaled from 2^32 to the largest power of two whose sums stay in range
U32 == 2 ^ 30
MaxIrq == KBUF_SIZE + ExtraIrq
\* kernel module v1.0: slots of k_buffer (256 in the source), interrupts served
\* and read() calls made in a behaviour, interrupts left before the counter wraps
KBUF_SIZE_V1 == 3
ReadIrqs == 4
MaxReads == 4
WrapLeadV1 == 2
\* benchmark: the longest series of events the consumer loop is given
MaxSeries == 3
\* the file descriptor open() returns on success
DevFd == 3

\* u32 arithmetic
Add32(a, b) == (a + b) % U32
Sub32(a, b) == (a - b + U32) % U32

\* struct GpioIrqEvent { u64 timestamp_ns; u32 event_counter; }
GpioIrqEvent(ts, ctr) == [timestamp_ns |-> ts, event_counter |-> ctr]
ZeroEvent == GpioIrqEvent(0, 0)

Slots == 0 .. (KBUF_SIZE - 1)

\* long page_size = ::sysconf(_SC_PAGESIZE);
PAGE_SIZE == 4096
\* sizeof(GpioIrqEvent) in RpiFastIrq.hpp: u64, u32, u32
sizeof_GpioIrqEvent == 16
\* sizeof(SharedRingBuffer): two u32 cursors and the slot array
sizeof_SharedRingBuffer == 8 + KBUF_SIZE * sizeof_GpioIrqEvent

\* ------------------------------------------------ layout of the shared region
\* #define KBUF_SIZE 256, not scaled: the sizes below are the real ones
RING_SLOTS == 256
\* the page sizes of an arm64 kernel
PageSizes == {4096, 16384, 65536}

AlignUp(n, a) == ((n + a - 1) \div a) * a

\* A struct is the sequence of its members; a scalar is aligned to its size.
Member(n, sz) == [name |-> n, size |-> sz]

\* struct GpioIrqEvent of the kernel module: pin_state is commented out
KernelEventFields == <<Member("timestamp_ns", 8), Member("event_counter", 4)>>
\* struct GpioIrqEvent of RpiFastIrq.hpp
UserEventFields == <<Member("timestamp_ns", 8), Member("event_counter", 4), Member("pin_state", 4)>>

RECURSIVE EndOf(_, _)
\* the offset after the first n members
EndOf(fields, n) ==
    IF n = 0 THEN 0 ELSE AlignUp(EndOf(fields, n - 1), fields[n].size) + fields[n].size

OffsetOfField(fields, i) == AlignUp(EndOf(fields, i - 1), fields[i].size)
AlignOf(fields) == CHOOSE a \in {fields[i].size : i \in 1 .. Len(fields)} :
                        \A i \in 1 .. Len(fields) : fields[i].size <= a
SizeOf(fields) == AlignUp(EndOf(fields, Len(fields)), AlignOf(fields))

\* offsetof(SharedRingBuffer, events): after u32 head and u32 tail
EventsOffset(fields) == AlignUp(8, AlignOf(fields))
\* sizeof of { u32 head; u32 tail; GpioIrqEvent events[slots]; }; with the
\* array commented out the struct is the two cursors
RingSize(fields, slots) ==
    IF slots = 0 THEN 8
    ELSE AlignUp(EventsOffset(fields) + slots * SizeOf(fields), AlignOf(fields))

\* The headers that declare SharedRingBuffer, and the slots each declares.
Headers == {"CountsPerSecond", "CountsPerSecond_Plot"}
DeclaredSlots(header) == IF header = "CountsPerSecond_Plot" THEN 0 ELSE RING_SLOTS

\* PAGE_ALIGN(sizeof(struct SharedRingBuffer)) of the kernel module
PAGE_ALIGN(p, n) == AlignUp(n, p)
KernelAllocLen(p) == PAGE_ALIGN(p, RingSize(KernelEventFields, RING_SLOTS))

\* (sizeof(SharedRingBuffer) + page_size - 1) & ~(page_size - 1), page_size a power of two
UserMapLen(header, p) ==
    LET n == RingSize(UserEventFields, DeclaredSlots(header)) + p - 1
    IN  n - (n % p)
\* (n + page_size - 1) & ~(page_size - 1)
PageAlign(n) == ((n + PAGE_SIZE - 1) \div PAGE_SIZE) * PAGE_SIZE

VARIABLES
    \* kernel module
    ktime,              \* ktime_get_ns(): the clock, one tick per interrupt
    total_interrupts,   \* static u32 total_interrupts
    head,               \* shared_buf->head
    tail,               \* shared_buf->tail
    events,             \* shared_buf->events[KBUF_SIZE]
    isr_pc,             \* position of gpio_isr
    isr_head,           \* gpio_isr: u32 current_head
    \* RpiFastIrq
    m_fd,               \* int m_fd
    m_shared_buf,       \* SharedRingBuffer* m_shared_buf: "null" or "mapped"
    m_running,          \* std::atomic<bool> m_running
    m_callback,         \* IrqCallback m_callback: set or empty
    m_mmap_size,        \* size_t m_mmap_size
    caller_pc,          \* position of the thread that calls start()/stop()/~RpiFastIrq()
    in_dtor,            \* the stop() in progress was called by ~RpiFastIrq()
    start_ret,          \* the value the caller's last call of start() returned
    last_call,          \* the path the caller's last call took
    \* the process
    fd_open,            \* the descriptor of the device is open
    region_mapped,      \* the shared region is mapped into the process
    \* listener thread
    w_pc,               \* position of listener_thread_func
    local_tail,         \* uint32_t local_tail
    current_head,       \* uint32_t current_head
    event_data,         \* GpioIrqEvent event_data
    w_read,             \* fields of the slot copied into event_data so far
    w_sched,            \* scheduling policy of the listener thread
    poll_ret,           \* the error the last poll() of the thread returned with, if any
    \* the callback's sink and the history the properties speak of
    delivered,          \* the records the callback received in the current drain pass
    ncb,                \* number of callback invocations since start()
    startHead,          \* records published when start() was called
    tail_count,         \* the count that tail stands for (tail is its low 32 bits)
    resyncAt,           \* records published when the listener loaded head to resynchronize
    lapped,             \* an interrupt began while the buffer was full
    everOver            \* head - tail exceeded KBUF_SIZE

kvars == <<ktime, total_interrupts, head, events, isr_pc, isr_head>>
lvars == <<m_fd, m_shared_buf, m_running, m_callback, m_mmap_size, caller_pc, in_dtor,
           start_ret, last_call, fd_open, region_mapped>>
wvars == <<w_pc, local_tail, current_head, event_data, w_read, w_sched, poll_ret>>
hvars == <<delivered, ncb, startHead, tail_count, resyncAt, lapped, everOver>>
\* the transport: kernel module, listener and its thread
tvars == <<kvars, tail, lvars, wvars, hvars>>

VARIABLES
    \* LockFreeRingBuffer<GpioIrqEvent, Size> g_event_buffer
    m_data,             \* T m_data[Size]
    m_head,             \* std::atomic<size_t> m_head
    m_tail,             \* std::atomic<size_t> m_tail
    \* the thread in push (the callback of the listener thread)
    push_pc,            \* position of push
    push_item,          \* const T& item
    push_current_head,  \* push: size_t current_head
    push_ret,           \* the value the last call of push returned
    push_calls,         \* number of calls of push so far
    \* the thread in pop (the main loop)
    pop_pc,             \* position of pop
    pop_current_tail,   \* pop: size_t current_tail
    received_event,     \* the caller's T& item
    pop_ret,            \* the value the last call of pop returned
    \* history
    q_accepted,         \* the items of the calls of push that returned true
    q_returned          \* the items of the calls of pop that returned true

qvars == <<m_data, m_head, m_tail, push_pc, push_item, push_current_head, push_ret, push_calls,
           pop_pc, pop_current_tail, received_event, pop_ret, q_accepted, q_returned>>

VARIABLES
    \* attaching to the device; the bytes of a slot
    page_size,          \* PAGE_SIZE of the kernel, sysconf(_SC_PAGESIZE) of the process
    a_who,              \* the program that attaches
    a_pc,               \* "closed", "opened" or "mapped"
    a_flags,            \* the flags of its open()
    a_len,              \* the length of its mapping, 0 if none
    a_errno,            \* errno of its last mmap(), "0" if it succeeded
    slot_index,         \* the slot gpio_isr wrote last, -1 if none
    slot_words,         \* the 32-bit words of the region that were written, by byte offset
    sent,               \* the record gpio_isr had to write
    got_status,         \* "none", "read" or "fault": the outcome of the last slot copy
    got                 \* the record the listener copied out of the slot

avars == <<page_size, a_who, a_pc, a_flags, a_len, a_errno, slot_index, slot_words, sent,
           got_status, got>>

VARIABLES
    \* kernel module v1.0 (spinlock and read())
    v1_ktime,           \* ktime_get_ns(): the clock, one tick per interrupt
    v1_total_interrupts, \* static u32 total_interrupts
    k_buffer,           \* static struct GpioIrqEvent k_buffer[KBUF_SIZE]
    k_head,             \* static unsigned int k_head
    k_tail,             \* static unsigned int k_tail
    \* the process in read() on the device
    rd_pc,              \* position in dev_read: "idle", "wait", "lock", "copy"
    local_event,        \* struct GpioIrqEvent local_event
    rd_ret,             \* what the last read() returned: "none", "record", "EINVAL", "EFAULT"
    rd_calls,           \* number of read() calls made
    \* history the properties speak of
    rd_interrupted,     \* the wait of the call in progress was ended by a signal
    rd_on_empty,        \* the call in progress took its record with k_head = k_tail
    k_written,          \* the records gpio_isr wrote since the module was loaded
    rd_returned         \* the records read() handed to the process, in order

rvars == <<v1_ktime, v1_total_interrupts, k_buffer, k_head, k_tail, rd_pc, local_event, rd_ret,
           rd_calls, rd_interrupted, rd_on_empty, k_written, rd_returned>>

VARIABLES
    \* Benchmark/RpiFastIrq.cpp: the listener that uses read()
    bm_running,         \* std::atomic<bool> m_running
    bm_callback,        \* IrqCallback m_callback: "empty" or "set"
    bm_fd,              \* int m_fd
    bm_caller_pc,       \* position of the caller in stop(): "idle", "joining"
    bm_pc,              \* position of the thread: "none", "loop", "poll", "read", "dispatch", "exited"
    bm_ret,             \* what the last poll() returned: "none", "ready", "timeout", "EINTR", "error"
    bytes_read,         \* ssize_t bytes_read of the last read(), 0 before any
    bm_event_data,      \* GpioIrqEvent event_data
    \* history the properties speak of
    bm_reads,           \* read() calls made since the last poll() returned
    bm_invoked,         \* callback invocations since the last poll() returned
    bm_received         \* the record the callback was last invoked with

bvars == <<bm_running, bm_callback, bm_fd, bm_caller_pc, bm_pc, bm_ret, bytes_read,
           bm_event_data, bm_reads, bm_invoked, bm_received>>

VARIABLES
    \* Benchmark/benchmark.cpp: the consumer loop of main
    popped,             \* the events g_event_buffer.pop will hand to the loop, in order
    consumed,           \* how many of them the loop has consumed
    last_timestamp,     \* uint64_t last_timestamp
    dropped_events,     \* uint32_t dropped_events
    last_counter,       \* uint32_t last_counter
    deltas              \* std::vector<uint64_t> deltas

dvars == <<popped, consumed, last_timestamp, dropped_events, last_counter, deltas>>

\* everything outside the transport
xvars == <<qvars, avars, rvars, bvars, dvars>>
vars == <<tvars, xvars>>

\* ------------------------------------------------------------- the module
\* The number of records whose head store has been made.
Published == IF isr_pc = "idle" THEN ktime ELSE ktime - 1

\* The count a cursor value c stands for when the thread stores it: the newest
\* count up to that of head whose low 32 bits are c.
CountOf(c) == Published - Sub32(head, c)

\* The record gpio_isr writes for the n-th interrupt (n = 1, 2, ...).
RecordOf(n) == GpioIrqEvent(n, n % U32)

\* The slot array after n interrupts and no reader: slot i holds the last
\* record written to it, or the zeroes of vmalloc_user.
EventsAfter(n) ==
    [i \in Slots |->
        LET written == {c \in (IF n > KBUF_SIZE THEN n - KBUF_SIZE ELSE 0) .. (n - 1) :
                            c % KBUF_SIZE = i}
        IN  IF written = {} THEN ZeroEvent
            ELSE RecordOf((CHOOSE c \in written : \A d \in written : d <= c) + 1)]

BootCounts == {0, U32 - WrapLead}

\* The interrupts served in one behaviour after the module was taken up at
\* count b: enough to overflow the buffer from a fresh module, enough to pass
\* the cursor wrap from a module taken up just below it.
IrqBudget(b) == IF b = 0 THEN MaxIrq ELSE WrapLead + 1

QSlots == 0 .. (QSize - 1)

\* LockFreeRingBuffer g_event_buffer: static storage, m_head{0}, m_tail{0};
\* GpioIrqEvent received_event is not initialized.
QueueInit ==
    /\ m_data = [i \in QSlots |-> ZeroEvent]
    /\ m_head = 0
    /\ m_tail = 0
    /\ push_pc = "idle"
    /\ push_item = ZeroEvent
    /\ push_current_head = 0
    /\ push_ret = "none"
    /\ push_calls = 0
    /\ pop_pc = "idle"
    /\ pop_current_tail = 0
    /\ received_event = "uninitialized"
    /\ pop_ret = "none"
    /\ q_accepted = <<>>
    /\ q_returned = <<>>

\* rpi_fast_irq_init: head = 0, tail = 0, total_interrupts = 0; then `boot`
\* interrupts with no listener attached (tail is still 0).
InitTransport ==
    \E boot \in BootCounts :
        /\ ktime = boot
        /\ total_interrupts = boot % U32
        /\ head = boot % U32
        /\ tail = 0
        /\ events = EventsAfter(boot)
        /\ isr_pc = "idle"
        /\ isr_head = 0
        /\ m_fd = -1
        /\ m_shared_buf = "null"
        /\ m_running = FALSE
        /\ m_callback = "empty"
        /\ m_mmap_size = 0
        /\ caller_pc = "idle"
        /\ in_dtor = FALSE
        /\ start_ret = "none"
        /\ last_call = "none"
        /\ fd_open = FALSE
        /\ region_mapped = FALSE
        /\ w_pc = "none"
        /\ local_tail = 0
        /\ current_head = 0
        /\ event_data = ZeroEvent
        /\ w_read = {}
        /\ w_sched = "SCHED_OTHER"
        /\ poll_ret = "none"
        /\ delivered = <<>>
        /\ ncb = 0
        /\ startHead = 0
        /\ tail_count = 0
        /\ resyncAt = 0
        /\ lapped = FALSE
        /\ everOver = FALSE

\* The record of an interrupt with the level of the pin.
Record3(ts, ctr, pin) == [timestamp_ns |-> ts, event_counter |-> ctr, pin_state |-> pin]

SlotsV1 == 0 .. (KBUF_SIZE_V1 - 1)

\* Interrupts the v1.0 module served, all of them read, before the behaviour begins.
BootCountsV1 == {0, U32 - WrapLeadV1}

\* k_buffer after n interrupts: slot i holds the record of the last interrupt
\* that wrote it (the c-th interrupt writes slot (c - 1) % KBUF_SIZE), or the
\* zeroes of static storage.
BufferAfterV1(n) ==
    [i \in SlotsV1 |->
        LET written == {c \in (IF n > KBUF_SIZE_V1 THEN n - KBUF_SIZE_V1 + 1 ELSE 1) .. n :
                            (c - 1) % KBUF_SIZE_V1 = i}
        IN  IF written = {} THEN Record3(0, 0, 0)
            ELSE LET c == CHOOSE c \in written : TRUE IN Record3(c, c % U32, 0)]

\* event_counter values of the events of a series: low values, with gaps, and
\* the values before the wrap of the u32 counter.
CounterValues == {0, 1, 2, 3, 5, U32 - 2, U32 - 1}

\* The series the loop can be given: event_counter strictly increasing, the
\* timestamps increasing and not 0.
RECURSIVE SeriesOver(_, _)
SeriesOver(n, above) ==
    IF n = 0 THEN {<<>>}
    ELSE {<<>>} \cup
         UNION {{<<c>> \o rest : rest \in SeriesOver(n - 1, c)} :
                    c \in {v \in CounterValues : v > above}}

EventSeries ==
    {[i \in 1 .. Len(cs) |-> Record3(10 * i, cs[i], 0)] : cs \in SeriesOver(MaxSeries, -1)}

\* main of the benchmark before the loop: last_timestamp = 0, dropped_events = 0,
\* last_counter = 0, deltas empty.
ConsumerInit ==
    /\ popped \in EventSeries
    /\ consumed = 0
    /\ last_timestamp = 0
    /\ dropped_events = 0
    /\ last_counter = 0
    /\ deltas = <<>>

\* RpiFastIrq of the benchmark after construction: m_fd(-1), m_running(false),
\* no callback, no thread.
BenchInit ==
    /\ bm_running = FALSE
    /\ bm_callback = "empty"
    /\ bm_fd = -1
    /\ bm_caller_pc = "idle"
    /\ bm_pc = "none"
    /\ bm_ret = "none"
    /\ bytes_read = 0
    /\ bm_event_data = Record3(0, 0, 0)
    /\ bm_reads = 0
    /\ bm_invoked = 0
    /\ bm_received = Record3(0, 0, 0)

\* static storage of the v1.0 module: total_interrupts = 0, k_head = k_tail = 0,
\* k_buffer zeroed; no process is in read().
ReadInit ==
    \E boot \in BootCountsV1 :
        /\ v1_ktime = boot
        /\ v1_total_interrupts = boot % U32
        /\ k_buffer = BufferAfterV1(boot)
        /\ k_head = boot % KBUF_SIZE_V1
        /\ k_tail = boot % KBUF_SIZE_V1
        /\ rd_pc = "idle"
        /\ local_event = Record3(0, 0, 0)
        /\ rd_ret = "none"
        /\ rd_calls = 0
        /\ rd_interrupted = FALSE
        /\ rd_on_empty = FALSE
        /\ k_written = <<>>
        /\ rd_returned = <<>>

\* Nothing has opened the device; vmalloc_user has zeroed the region.
AttachInit ==
    /\ a_who = "nobody"
    /\ a_pc = "closed"
    /\ a_flags = "none"
    /\ a_len = 0
    /\ a_errno = "0"
    /\ slot_index = -1
    /\ slot_words = <<>>
    /\ sent = Record3(0, 0, 0)
    /\ got_status = "none"
    /\ got = Record3(0, 0, 0)

Init ==
    /\ InitTransport /\ QueueInit /\ AttachInit /\ page_size = PAGE_SIZE
    /\ ReadInit /\ v1_ktime = 0
    /\ BenchInit
    /\ ConsumerInit /\ popped = <<>>

\* The listener has resynchronized: tail is the cursor of the running thread.
Synced == w_pc \in {"loop", "poll", "load", "drain", "read2", "cb", "store"}

\* The cursor below which the running listener needs no slot any more: the
\* shared tail, and the head value just loaded while tail is being resynchronized.
Cursor == IF w_pc = "resync" THEN local_tail ELSE tail
Reading == Synced \/ w_pc = "resync"

\* ------------------------------------------------ gpio_isr (the producer)
\* events[current_head % KBUF_SIZE]
IsrSlot == isr_head % KBUF_SIZE

\* u64 ts = ktime_get_ns(); total_interrupts++; current_head = shared_buf->head;
Isr_Enter ==
    /\ isr_pc = "idle"
    /\ \E b \in BootCounts : b <= ktime /\ ktime < b + IrqBudget(b)
    /\ ktime' = ktime + 1
    /\ total_interrupts' = Add32(total_interrupts, 1)
    /\ isr_head' = head
    /\ isr_pc' = "ts"
    /\ lapped' = (lapped \/ (Reading /\ Sub32(head, Cursor) >= KBUF_SIZE))
    /\ UNCHANGED <<head, tail, events, lvars, wvars, delivered, ncb, startHead, tail_count, resyncAt, everOver>>

\* Faulty variant of Isr_WriteTs: head is stored before the payload is complete.
Isr_WriteTs_PublishEarly ==
    /\ isr_pc = "ts"
    /\ events' = [events EXCEPT ![IsrSlot].timestamp_ns = ktime]
    /\ head' = Add32(isr_head, 1)
    /\ isr_pc' = "ctr"
    /\ UNCHANGED <<ktime, total_interrupts, isr_head, tail, lvars, wvars, hvars>>

\* shared_buf->events[current_head % KBUF_SIZE].timestamp_ns = ts;
Isr_WriteTs ==
    /\ isr_pc = "ts"
    /\ events' = [events EXCEPT ![IsrSlot].timestamp_ns = ktime]
    /\ isr_pc' = "ctr"
    /\ UNCHANGED <<ktime, total_interrupts, head, isr_head, tail, lvars, wvars, hvars>>

\* Faulty variant of Isr_WriteCounter: the counter is written as a zero-based index.
Isr_WriteCounter_ZeroBased ==
    /\ isr_pc = "ctr"
    /\ events' = [events EXCEPT ![IsrSlot].event_counter = isr_head]
    /\ isr_pc' = "publish"
    /\ UNCHANGED <<ktime, total_interrupts, head, isr_head, tail, lvars, wvars, hvars>>

\* shared_buf->events[current_head % KBUF_SIZE].event_counter = total_interrupts;
Isr_WriteCounter ==
    /\ isr_pc = "ctr"
    /\ events' = [events EXCEPT ![IsrSlot].event_counter = total_interrupts]
    /\ isr_pc' = "publish"
    /\ UNCHANGED <<ktime, total_interrupts, head, isr_head, tail, lvars, wvars, hvars>>

\* Faulty variant of Isr_Publish: on a full buffer the handler evicts the oldest
\* record by advancing tail itself.
Isr_Publish_Evict ==
    /\ isr_pc = "publish"
    /\ head' = Add32(isr_head, 1)
    /\ tail' = (IF Sub32(Add32(isr_head, 1), tail) > KBUF_SIZE THEN Add32(tail, 1) ELSE tail)
    /\ isr_pc' = "idle"
    /\ isr_head' = 0
    /\ everOver' = (everOver \/ (Reading /\ Sub32(Add32(isr_head, 1), Cursor) > KBUF_SIZE))
    /\ UNCHANGED <<ktime, total_interrupts, events, lvars, wvars,
                   delivered, ncb, startHead, tail_count, resyncAt, lapped>>

\* smp_store_release(&shared_buf->head, current_head + 1); wake_up_interruptible(&wq);
Isr_Publish ==
    /\ isr_pc = "publish"
    /\ head' = Add32(isr_head, 1)
    /\ isr_pc' = "idle"
    /\ isr_head' = 0
    /\ everOver' = (everOver \/ (Reading /\ Sub32(Add32(isr_head, 1), Cursor) > KBUF_SIZE))
    /\ UNCHANGED <<ktime, total_interrupts, events, tail, lvars, wvars,
                   delivered, ncb, startHead, tail_count, resyncAt, lapped>>

gpio_isr == Isr_Enter \/ Isr_WriteTs \/ Isr_WriteCounter \/ Isr_Publish

\* __poll_t dev_poll: POLLIN | POLLRDNORM when head != tail
dev_poll == head /= tail

\* ------------------------------------------------- RpiFastIrq::start/stop
\* The callbacks start() can be given: a callable (as every application of
\* the repository passes) or an empty std::function.
CallbackArgs == {"set", "empty"}

\* The size start() asks mmap() for.
MmapSize == PageAlign(sizeof_SharedRingBuffer)

\* the value of `return false;` after "Already running."
RejectedReturn == "false"

\* What start() leaves alone on every path.
StartFrame ==
    UNCHANGED <<kvars, tail, caller_pc, in_dtor, local_tail, current_head, event_data, w_read,
                resyncAt, lapped, everOver>>

\* Faulty variant of start_AlreadyRunning: the new callback replaces the stored one.
start_AlreadyRunning_StoresCallback ==
    /\ caller_pc = "idle"
    /\ m_running
    /\ \E cb \in CallbackArgs : m_callback' = cb
    /\ start_ret' = RejectedReturn
    /\ last_call' = "start_already_running"
    /\ UNCHANGED <<m_fd, m_shared_buf, m_running, m_mmap_size, fd_open, region_mapped,
                   w_pc, w_sched, poll_ret, delivered, ncb, startHead, tail_count>>
    /\ StartFrame

\* if (m_running) { "Already running."; return false; }
start_AlreadyRunning ==
    /\ caller_pc = "idle"
    /\ m_running
    /\ start_ret' = RejectedReturn
    /\ last_call' = "start_already_running"
    /\ UNCHANGED <<m_fd, m_shared_buf, m_running, m_callback, m_mmap_size, fd_open, region_mapped,
                   w_pc, w_sched, poll_ret, delivered, ncb, startHead, tail_count>>
    /\ StartFrame

\* Faulty variant of start_OpenFails: the callback is stored before the handle is opened.
start_OpenFails_StoresCallback ==
    /\ caller_pc = "idle"
    /\ ~m_running
    /\ m_fd' = -1
    /\ \E cb \in CallbackArgs : m_callback' = cb
    /\ start_ret' = "false"
    /\ last_call' = "start_open_failed"
    /\ UNCHANGED <<m_shared_buf, m_running, m_mmap_size, fd_open, region_mapped,
                   w_pc, w_sched, poll_ret, delivered, ncb, startHead, tail_count>>
    /\ StartFrame

\* m_fd = ::open(...); if (m_fd < 0) { ...; return false; }
start_OpenFails ==
    /\ caller_pc = "idle"
    /\ ~m_running
    /\ m_fd' = -1
    /\ start_ret' = "false"
    /\ last_call' = "start_open_failed"
    /\ UNCHANGED <<m_shared_buf, m_running, m_callback, m_mmap_size, fd_open, region_mapped,
                   w_pc, w_sched, poll_ret, delivered, ncb, startHead, tail_count>>
    /\ StartFrame

\* Faulty variant of start_MmapFails: the handle is not closed.
start_MmapFails_LeaksHandle ==
    /\ caller_pc = "idle"
    /\ ~m_running
    /\ m_mmap_size' = MmapSize
    /\ m_shared_buf' = "MAP_FAILED"
    /\ fd_open' = TRUE
    /\ m_fd' = -1
    /\ start_ret' = "false"
    /\ last_call' = "start_mmap_failed"
    /\ UNCHANGED <<m_running, m_callback, region_mapped, w_pc, w_sched, poll_ret, delivered, ncb, startHead, tail_count>>
    /\ StartFrame

\* open() succeeded; m_mmap_size = ...; m_shared_buf = mmap(...);
\* if (m_shared_buf == MAP_FAILED) { ...; ::close(m_fd); m_fd = -1; return false; }
start_MmapFails ==
    /\ caller_pc = "idle"
    /\ ~m_running
    /\ m_mmap_size' = MmapSize
    /\ m_shared_buf' = "MAP_FAILED"
    /\ fd_open' = FALSE
    /\ m_fd' = -1
    /\ start_ret' = "false"
    /\ last_call' = "start_mmap_failed"
    /\ UNCHANGED <<m_running, m_callback, region_mapped, w_pc, w_sched, poll_ret, delivered, ncb, startHead, tail_count>>
    /\ StartFrame

\* Faulty variant of start_Ok: start() itself resynchronizes tail and raises the priority.
start_Ok_Resyncs ==
    /\ caller_pc = "idle"
    /\ ~m_running
    /\ m_fd' = DevFd
    /\ fd_open' = TRUE
    /\ m_mmap_size' = MmapSize
    /\ m_shared_buf' = "mapped"
    /\ region_mapped' = TRUE
    /\ \E cb \in CallbackArgs : m_callback' = cb
    /\ m_running' = TRUE
    /\ w_pc' = "entry"
    /\ w_sched' = "SCHED_FIFO"
    /\ poll_ret' = "none"
    /\ tail' = head
    /\ start_ret' = "true"
    /\ last_call' = "start_ok"
    /\ delivered' = <<>>
    /\ ncb' = 0
    /\ startHead' = Published
    /\ UNCHANGED tail_count
    /\ UNCHANGED <<kvars, caller_pc, in_dtor, local_tail, current_head, event_data, w_read,
                   resyncAt, lapped, everOver>>

\* open() and mmap() succeeded; m_callback = std::move(user_callback);
\* m_running = true; m_listener_thread = std::thread(...); return true;
start_Ok ==
    /\ caller_pc = "idle"
    /\ ~m_running
    /\ m_fd' = DevFd
    /\ fd_open' = TRUE
    /\ m_mmap_size' = MmapSize
    /\ m_shared_buf' = "mapped"
    /\ region_mapped' = TRUE
    /\ \E cb \in CallbackArgs : m_callback' = cb
    /\ m_running' = TRUE
    /\ w_pc' = "entry"
    /\ w_sched' = "SCHED_OTHER"
    /\ poll_ret' = "none"
    /\ start_ret' = "true"
    /\ last_call' = "start_ok"
    /\ delivered' = <<>>
    /\ ncb' = 0
    /\ startHead' = Published
    /\ UNCHANGED tail_count
    /\ StartFrame

\* bool RpiFastIrq::start(IrqCallback user_callback): the whole call.  open()
\* and mmap() succeed or fail as the system decides.
start == start_AlreadyRunning \/ start_OpenFails \/ start_MmapFails \/ start_Ok

\* What stop() leaves alone on every path.
StopFrame ==
    UNCHANGED <<kvars, tail, m_callback, m_mmap_size, local_tail, current_head, event_data,
                w_read, w_sched, poll_ret, hvars>>

\* Faulty variant of stop_noop: stop() does not test the running flag and goes on
\* to join, unmap and close.
stop_noop_Releases ==
    /\ caller_pc = "idle"
    /\ ~m_running
    /\ caller_pc' = "joining"
    /\ start_ret' = "none"
    /\ last_call' = "stop_noop"
    /\ UNCHANGED <<m_fd, m_shared_buf, m_running, in_dtor, fd_open, region_mapped, w_pc>>
    /\ StopFrame

\* void RpiFastIrq::stop(): if (!m_running) return;
stop_noop ==
    /\ caller_pc = "idle"
    /\ ~m_running
    /\ start_ret' = "none"
    /\ last_call' = "stop_noop"
    /\ UNCHANGED <<m_fd, m_shared_buf, m_running, caller_pc, in_dtor, fd_open, region_mapped, w_pc>>
    /\ StopFrame

\* stop(), up to the join: m_running = false;
stop_begin ==
    /\ caller_pc = "idle"
    /\ m_running
    /\ m_running' = FALSE
    /\ caller_pc' = "joining"
    /\ start_ret' = "none"
    /\ last_call' = "stop"
    /\ UNCHANGED <<m_fd, m_shared_buf, in_dtor, fd_open, region_mapped, w_pc>>
    /\ StopFrame

\* Faulty variant of stop_join: stop() goes on without waiting for the thread.
stop_join_Detaches ==
    /\ caller_pc = "joining"
    /\ caller_pc' = "unmap"
    /\ UNCHANGED <<m_fd, m_shared_buf, m_running, in_dtor, start_ret, last_call, fd_open,
                   region_mapped, w_pc>>
    /\ StopFrame

\* if (m_listener_thread.joinable()) m_listener_thread.join();
stop_join ==
    /\ caller_pc = "joining"
    /\ w_pc \in {"exited", "none"}
    /\ w_pc' = "none"
    /\ caller_pc' = "unmap"
    /\ UNCHANGED <<m_fd, m_shared_buf, m_running, in_dtor, start_ret, last_call, fd_open,
                   region_mapped>>
    /\ StopFrame

\* if (m_shared_buf != nullptr && m_shared_buf != MAP_FAILED) { munmap; m_shared_buf = nullptr; }
stop_unmap ==
    /\ caller_pc = "unmap"
    /\ IF m_shared_buf = "mapped"
       THEN m_shared_buf' = "null" /\ region_mapped' = FALSE
       ELSE UNCHANGED <<m_shared_buf, region_mapped>>
    /\ caller_pc' = "close"
    /\ UNCHANGED <<m_fd, m_running, in_dtor, start_ret, last_call, fd_open, w_pc>>
    /\ StopFrame

\* Faulty variant of stop_close: the handle is left open.
stop_close_Skips ==
    /\ caller_pc = "close"
    /\ m_fd' = -1
    /\ caller_pc' = (IF in_dtor THEN "destroyed" ELSE "idle")
    /\ last_call' = "stop_done"
    /\ UNCHANGED <<m_shared_buf, m_running, in_dtor, start_ret, region_mapped, fd_open, w_pc>>
    /\ StopFrame

\* if (m_fd >= 0) { ::close(m_fd); m_fd = -1; } and the return of stop()
stop_close ==
    /\ caller_pc = "close"
    /\ IF m_fd >= 0
       THEN m_fd' = -1 /\ fd_open' = FALSE
       ELSE UNCHANGED <<m_fd, fd_open>>
    /\ caller_pc' = (IF in_dtor THEN "destroyed" ELSE "idle")
    /\ last_call' = "stop_done"
    /\ UNCHANGED <<m_shared_buf, m_running, in_dtor, start_ret, region_mapped, w_pc>>
    /\ StopFrame

stop == stop_noop \/ stop_begin \/ stop_join \/ stop_unmap \/ stop_close

\* RpiFastIrq::~RpiFastIrq() { stop(); }: the call of stop(), whose steps after
\* the flag is cleared are those of stop().
dtor_RpiFastIrq ==
    /\ caller_pc = "idle"
    /\ in_dtor' = TRUE
    /\ start_ret' = "none"
    /\ IF m_running
       THEN m_running' = FALSE /\ caller_pc' = "joining" /\ last_call' = "stop"
       ELSE UNCHANGED m_running /\ caller_pc' = "destroyed" /\ last_call' = "stop_noop"
    /\ UNCHANGED <<m_fd, m_shared_buf, fd_open, region_mapped, w_pc>>
    /\ StopFrame

\* ------------------------------------- RpiFastIrq::listener_thread_func
\* Faulty variant of W_ResyncLoad: the thread gives up when sched_setscheduler fails.
W_ResyncLoad_FailureFatal ==
    /\ w_pc = "entry"
    /\ \E policy \in {"SCHED_FIFO", "SCHED_OTHER"} :
          /\ w_sched' = policy
          /\ w_pc' = IF policy = "SCHED_FIFO" THEN "resync" ELSE "exited"
    /\ UNCHANGED poll_ret
    /\ local_tail' = head
    /\ resyncAt' = Published
    /\ lapped' = FALSE
    /\ everOver' = FALSE
    /\ UNCHANGED <<kvars, tail, lvars, current_head, event_data, w_read, delivered, ncb,
                   startHead, tail_count>>

\* sched_setscheduler(0, SCHED_FIFO, &param) succeeds, or fails with a warning; pfd; then
\* uint32_t local_tail = __atomic_load_n(&m_shared_buf->head, __ATOMIC_ACQUIRE);
W_ResyncLoad ==
    /\ w_pc = "entry"
    /\ \E policy \in {"SCHED_FIFO", "SCHED_OTHER"} : w_sched' = policy
    /\ UNCHANGED poll_ret
    /\ local_tail' = head
    /\ resyncAt' = Published
    /\ lapped' = FALSE
    /\ everOver' = FALSE
    /\ w_pc' = "resync"
    /\ UNCHANGED <<kvars, tail, lvars, current_head, event_data, w_read, delivered, ncb,
                   startHead, tail_count>>

\* __atomic_store_n(&m_shared_buf->tail, local_tail, __ATOMIC_RELEASE);
W_ResyncStore ==
    /\ w_pc = "resync"
    /\ tail' = local_tail
    /\ tail_count' = CountOf(local_tail)
    /\ w_pc' = "loop"
    /\ UNCHANGED <<kvars, lvars, local_tail, current_head, event_data, w_read, w_sched, poll_ret,
                   delivered, ncb, startHead, resyncAt, lapped, everOver>>

\* Faulty variant of W_Check: the loop does not test the running flag.
W_Check_IgnoresFlag ==
    /\ w_pc = "loop"
    /\ w_pc' = "poll"
    /\ poll_ret' = "none"
    /\ UNCHANGED <<kvars, tail, lvars, local_tail, current_head, event_data, w_read, w_sched, hvars>>

\* while (m_running)
W_Check ==
    /\ w_pc = "loop"
    /\ IF m_running
       THEN w_pc' = "poll" /\ UNCHANGED <<local_tail, w_sched>>
       ELSE w_pc' = "exited" /\ local_tail' = 0 /\ w_sched' = "SCHED_OTHER"
    /\ poll_ret' = "none"
    /\ UNCHANGED <<kvars, tail, lvars, current_head, event_data, w_read, hvars>>

\* Faulty variant of W_Poll: an interrupted wait ends the loop like any other error.
W_Poll_EintrBreaks ==
    /\ w_pc = "poll"
    /\ \/ /\ dev_poll
          /\ w_pc' = "load"
          /\ poll_ret' = "none"
          /\ UNCHANGED <<local_tail, w_sched>>
       \/ /\ ~dev_poll
          /\ w_pc' = "loop"
          /\ poll_ret' = "none"
          /\ UNCHANGED <<local_tail, w_sched>>
       \/ /\ ~dev_poll
          /\ w_pc' = "exited"
          /\ poll_ret' = "EINTR"
          /\ local_tail' = 0
          /\ w_sched' = "SCHED_OTHER"
       \/ /\ w_pc' = "exited"
          /\ poll_ret' = "error"
          /\ local_tail' = 0
          /\ w_sched' = "SCHED_OTHER"
    /\ UNCHANGED <<kvars, tail, lvars, current_head, event_data, w_read, hvars>>

\* Faulty variant of W_Poll: a failed wait is retried whatever the error.
W_Poll_RetriesAnyError ==
    /\ w_pc = "poll"
    /\ \/ /\ dev_poll
          /\ w_pc' = "load"
          /\ poll_ret' = "none"
       \/ /\ ~dev_poll
          /\ w_pc' = "loop"
          /\ poll_ret' = "none"
       \/ /\ ~dev_poll
          /\ w_pc' = "loop"
          /\ poll_ret' = "EINTR"
       \/ /\ w_pc' = "loop"
          /\ poll_ret' = "error"
    /\ UNCHANGED <<kvars, tail, lvars, local_tail, current_head, event_data, w_read, w_sched, hvars>>

\* int ret = ::poll(&pfd, 1, timeout_ms); and the branch on ret, errno, revents.
\* poll() reports a timeout or an interruption only when the device is not readable.
W_Poll ==
    /\ w_pc = "poll"
    /\ \/ /\ dev_poll                    \* ret > 0, revents has POLLIN
          /\ w_pc' = "load"
          /\ poll_ret' = "none"
          /\ UNCHANGED <<local_tail, w_sched>>
       \/ /\ ~dev_poll                   \* ret == 0: the timeout expired
          /\ w_pc' = "loop"
          /\ poll_ret' = "none"
          /\ UNCHANGED <<local_tail, w_sched>>
       \/ /\ ~dev_poll                   \* ret < 0, errno == EINTR
          /\ w_pc' = "loop"
          /\ poll_ret' = "EINTR"
          /\ UNCHANGED <<local_tail, w_sched>>
       \/ /\ w_pc' = "exited"            \* ret < 0, another errno: break
          /\ poll_ret' = "error"
          /\ local_tail' = 0
          /\ w_sched' = "SCHED_OTHER"
    /\ UNCHANGED <<kvars, tail, lvars, current_head, event_data, w_read, hvars>>

\* uint32_t current_head = __atomic_load_n(&m_shared_buf->head, __ATOMIC_ACQUIRE);
W_LoadHead ==
    /\ w_pc = "load"
    /\ current_head' = head
    /\ w_pc' = "drain"
    /\ poll_ret' = "none"
    /\ UNCHANGED <<kvars, tail, lvars, local_tail, event_data, w_read, w_sched, hvars>>

\* The value of one field of a slot.
FieldOf(slot, f) == IF f = "ts" THEN events[slot].timestamp_ns ELSE events[slot].event_counter

\* event_data with field f copied from the slot.
CopyField(f, slot) ==
    IF f = "ts" THEN [event_data EXCEPT !.timestamp_ns = FieldOf(slot, f)]
    ELSE [event_data EXCEPT !.event_counter = FieldOf(slot, f)]

\* Faulty variant of SlotOf: the slot index is off by one.
SlotOf_OffByOne(count) == (count + 1) % KBUF_SIZE

\* The slot of a cursor value.
SlotOf(count) == count % KBUF_SIZE

\* Faulty variant of DrainMore: the loop stops one record short.
DrainMore_StopsEarly == local_tail /= current_head /\ Add32(local_tail, 1) /= current_head

\* Faulty variant of DrainMore: the cursors are compared by order, not by inequality.
DrainMore_LessThan == local_tail < current_head

\* Faulty variant of DrainMore: the drain loop also tests the running flag.
DrainMore_ChecksFlag == local_tail /= current_head /\ m_running

\* while (local_tail != current_head)
DrainMore == local_tail /= current_head

\* while (local_tail != current_head) { GpioIrqEvent event_data = events[local_tail % KBUF_SIZE];
\* the copy is not atomic: it reads one field, then the other, in either order.
W_Drain ==
    /\ w_pc = "drain"
    /\ IF DrainMore
       THEN \E f \in {"ts", "ctr"} :
                /\ event_data' = CopyField(f, SlotOf(local_tail))
                /\ w_read' = {f}
                /\ w_pc' = "read2"
       ELSE /\ w_pc' = "store"
            /\ UNCHANGED <<event_data, w_read>>
    /\ UNCHANGED <<kvars, tail, lvars, local_tail, current_head, w_sched, poll_ret, hvars>>

\* Faulty variant of W_Read2: the slot is released (tail stored) as soon as it is copied.
W_Read2_ReleasesSlot ==
    /\ w_pc = "read2"
    /\ \E f \in {"ts", "ctr"} \ w_read :
          event_data' = CopyField(f, SlotOf(local_tail))
    /\ w_read' = {"ts", "ctr"}
    /\ tail' = Add32(local_tail, 1)
    /\ w_pc' = "cb"
    /\ UNCHANGED <<kvars, lvars, local_tail, current_head, w_sched, poll_ret, hvars>>

\* the rest of the copy of the slot
W_Read2 ==
    /\ w_pc = "read2"
    /\ \E f \in {"ts", "ctr"} \ w_read :
          event_data' = CopyField(f, SlotOf(local_tail))
    /\ w_read' = {"ts", "ctr"}
    /\ w_pc' = "cb"
    /\ UNCHANGED <<kvars, tail, lvars, local_tail, current_head, w_sched, poll_ret, hvars>>

\* if (m_callback) m_callback(event_data); local_tail++; }
W_Callback ==
    /\ w_pc = "cb"
    /\ IF m_callback = "set"
       THEN delivered' = Append(delivered, event_data) /\ ncb' = ncb + 1
       ELSE UNCHANGED <<delivered, ncb>>
    /\ local_tail' = Add32(local_tail, 1)
    /\ event_data' = ZeroEvent
    /\ w_read' = {}
    /\ w_pc' = "drain"
    /\ UNCHANGED <<kvars, tail, lvars, current_head, w_sched, poll_ret, startHead, tail_count, resyncAt, lapped, everOver>>

\* Faulty variant of W_StoreTail: the pass publishes the current head as tail.
W_StoreTail_StoresHead ==
    /\ w_pc = "store"
    /\ tail' = head
    /\ tail_count' = CountOf(head)
    /\ w_pc' = "loop"
    /\ current_head' = 0
    /\ delivered' = <<>>
    /\ UNCHANGED <<kvars, lvars, local_tail, event_data, w_read, w_sched, poll_ret, ncb, startHead,
                   resyncAt, lapped, everOver>>

\* __atomic_store_n(&m_shared_buf->tail, local_tail, __ATOMIC_RELEASE);
W_StoreTail ==
    /\ w_pc = "store"
    /\ tail' = local_tail
    /\ tail_count' = CountOf(local_tail)
    /\ w_pc' = "loop"
    /\ current_head' = 0
    /\ delivered' = <<>>
    /\ UNCHANGED <<kvars, lvars, local_tail, event_data, w_read, w_sched, poll_ret, ncb, startHead,
                   resyncAt, lapped, everOver>>

listener_thread_func ==
    \/ W_ResyncLoad \/ W_ResyncStore \/ W_Check \/ W_Poll \/ W_LoadHead
    \/ W_Drain \/ W_Read2 \/ W_Callback \/ W_StoreTail

Next ==
    \/ gpio_isr /\ UNCHANGED xvars
    \/ start /\ UNCHANGED xvars
    \/ stop /\ UNCHANGED xvars
    \/ dtor_RpiFastIrq /\ UNCHANGED xvars
    \/ listener_thread_func /\ UNCHANGED xvars

Spec == Init /\ [][Next]_vars

\* The scheduler runs the listener thread whenever it can take a step.
\* The thread that called stop() runs it to its end.
FairSpec ==
    /\ Spec
    /\ WF_tvars(listener_thread_func)
    /\ WF_tvars(stop_join \/ stop_unmap \/ stop_close)

\* ------------- CountsPerSecond_Plot/RpiFastIrq.cpp: the listener thread
\* sched_setscheduler; uint32_t local_tail = 0;  (no load of head, no store of
\* tail before the loop)
W_EntryPlot ==
    /\ w_pc = "entry"
    /\ local_tail' = 0
    /\ resyncAt' = 0
    /\ lapped' = FALSE
    /\ everOver' = FALSE
    /\ w_pc' = "loop"
    /\ \E policy \in {"SCHED_FIFO", "SCHED_OTHER"} : w_sched' = policy
    /\ UNCHANGED poll_ret
    /\ UNCHANGED <<kvars, tail, lvars, current_head, event_data, w_read, delivered, ncb,
                   startHead, tail_count>>

listener_thread_func_plot ==
    \/ W_EntryPlot \/ W_Check \/ W_Poll \/ W_LoadHead
    \/ W_Drain \/ W_Read2 \/ W_Callback \/ W_StoreTail

InitPlot == Init /\ ktime = 0

NextPlot ==
    \/ gpio_isr /\ UNCHANGED xvars
    \/ start /\ UNCHANGED xvars
    \/ stop /\ UNCHANGED xvars
    \/ dtor_RpiFastIrq /\ UNCHANGED xvars
    \/ listener_thread_func_plot /\ UNCHANGED xvars

SpecPlot == InitPlot /\ [][NextPlot]_vars

\* ------------------------------------ LockFreeRingBuffer (Basic_usage, Benchmark)
\* One thread calls push (the callback, in the listener thread), one thread
\* calls pop (the main loop); each call is split at its atomic loads and
\* stores.  The callback passes every record once and does not retry a
\* record that push refused.
QFrame == UNCHANGED <<q_accepted, q_returned>>
PushFrame == UNCHANGED <<pop_pc, pop_current_tail, received_event, pop_ret, m_tail>>
PopFrame == UNCHANGED <<push_pc, push_item, push_current_head, push_ret, push_calls, m_head>>

\* g_event_buffer.push(event); size_t current_head = m_head.load(relaxed);
push_Load ==
    /\ push_pc = "idle"
    /\ push_calls < MaxPush
    /\ push_calls' = push_calls + 1
    /\ push_item' = RecordOf(push_calls + 1)
    /\ push_current_head' = m_head
    /\ push_ret' = "none"
    /\ push_pc' = "check"
    /\ UNCHANGED <<m_data, m_head>>
    /\ PushFrame /\ QFrame

\* Faulty variant of push_Check: the queue is never found full.
push_Check_NeverFull ==
    /\ push_pc = "check"
    /\ push_pc' = "write"
    /\ UNCHANGED <<push_ret, m_data, m_head, push_item, push_current_head, push_calls>>
    /\ PushFrame /\ QFrame

\* if (current_head - m_tail.load(acquire) >= Size) return false;
push_Check ==
    /\ push_pc = "check"
    /\ IF push_current_head - m_tail >= QSize
       THEN push_pc' = "idle" /\ push_ret' = "false"
       ELSE push_pc' = "write" /\ UNCHANGED push_ret
    /\ UNCHANGED <<m_data, m_head, push_item, push_current_head, push_calls>>
    /\ PushFrame /\ QFrame

\* m_data[current_head % Size] = item;
push_Write ==
    /\ push_pc = "write"
    /\ m_data' = [m_data EXCEPT ![push_current_head % QSize] = push_item]
    /\ push_pc' = "store"
    /\ UNCHANGED <<m_head, push_item, push_current_head, push_ret, push_calls>>
    /\ PushFrame /\ QFrame

\* m_head.store(current_head + 1, release); return true;
push_Store ==
    /\ push_pc = "store"
    /\ m_head' = push_current_head + 1
    /\ push_ret' = "true"
    /\ push_pc' = "idle"
    /\ q_accepted' = Append(q_accepted, push_item)
    /\ UNCHANGED <<m_data, push_item, push_current_head, push_calls, q_returned>>
    /\ PushFrame

push == push_Load \/ push_Check \/ push_Write \/ push_Store

\* g_event_buffer.pop(received_event); size_t current_tail = m_tail.load(relaxed);
pop_Load ==
    /\ pop_pc = "idle"
    /\ pop_current_tail' = m_tail
    /\ pop_ret' = "none"
    /\ pop_pc' = "check"
    /\ UNCHANGED <<m_data, m_tail, received_event>>
    /\ PopFrame /\ QFrame

\* if (current_tail == m_head.load(acquire)) return false;
pop_Check ==
    /\ pop_pc = "check"
    /\ IF pop_current_tail = m_head
       THEN pop_pc' = "idle" /\ pop_ret' = "false"
       ELSE pop_pc' = "read" /\ UNCHANGED pop_ret
    /\ UNCHANGED <<m_data, m_tail, pop_current_tail, received_event>>
    /\ PopFrame /\ QFrame

\* Faulty variant of pop_Read: the slot after the one at tail is read.
pop_Read_NextSlot ==
    /\ pop_pc = "read"
    /\ received_event' = m_data[(pop_current_tail + 1) % QSize]
    /\ pop_pc' = "store"
    /\ UNCHANGED <<m_data, m_tail, pop_current_tail, pop_ret>>
    /\ PopFrame /\ QFrame

\* item = m_data[current_tail % Size];
pop_Read ==
    /\ pop_pc = "read"
    /\ received_event' = m_data[pop_current_tail % QSize]
    /\ pop_pc' = "store"
    /\ UNCHANGED <<m_data, m_tail, pop_current_tail, pop_ret>>
    /\ PopFrame /\ QFrame

\* m_tail.store(current_tail + 1, release); return true;
pop_Store ==
    /\ pop_pc = "store"
    /\ m_tail' = pop_current_tail + 1
    /\ pop_ret' = "true"
    /\ pop_pc' = "idle"
    /\ q_returned' = Append(q_returned, received_event)
    /\ UNCHANGED <<m_data, pop_current_tail, received_event, q_accepted>>
    /\ PopFrame

pop == pop_Load \/ pop_Check \/ pop_Read \/ pop_Store

InitQueue == Init /\ ktime = 0

NextQueue ==
    \/ push /\ UNCHANGED <<tvars, avars, rvars, bvars, dvars>>
    \/ pop /\ UNCHANGED <<tvars, avars, rvars, bvars, dvars>>

SpecQueue == InitQueue /\ [][NextQueue]_vars

\* --------------------------------- attaching: open, mmap, the bytes of a slot
\* The programs that map the device: the listener of RpiFastIrq.cpp v2.0.0
\* (built with CountsPerSecond/RpiFastIrq.hpp), the listener of
\* CountsPerSecond_Plot, and any other process that calls mmap on the device.
Listeners == {"part_003", "CountsPerSecond_Plot"}
AttachPrograms == Listeners \cup {"mmap_caller"}

HeaderOf(who) == IF who = "CountsPerSecond_Plot" THEN "CountsPerSecond_Plot" ELSE "CountsPerSecond"

\* m_fd = ::open(m_device_path.c_str(), flags)
OpenFlags(who) == IF who = "CountsPerSecond_Plot" THEN "O_RDONLY" ELSE "O_RDWR"

\* The length a program passes to mmap: the listeners compute it, another
\* process passes any number of pages.
RequestedLengths(who, p) ==
    IF who \in Listeners THEN {UserMapLen(HeaderOf(who), p)}
    ELSE {k * p : k \in 1 .. 3}

\* dev_mmap: -EINVAL if the request exceeds the allocation, else the pages are mapped
dev_mmap(size, p) == IF size > KernelAllocLen(p) THEN "EINVAL" ELSE "0"

\* mmap(NULL, len, PROT_READ | PROT_WRITE, MAP_SHARED, fd, 0): a shared
\* writable mapping needs a descriptor opened for writing, then dev_mmap decides
mmap_shared_rw(flags, len, p) == IF flags /= "O_RDWR" THEN "EACCES" ELSE dev_mmap(len, p)

AttachFrame == UNCHANGED <<page_size, slot_index, slot_words, sent, got_status, got>>

sys_open ==
    /\ a_pc = "closed"
    /\ \E who \in AttachPrograms :
          /\ a_who' = who
          /\ a_flags' = OpenFlags(who)
    /\ a_pc' = "opened"
    /\ a_errno' = "0"
    /\ UNCHANGED a_len
    /\ AttachFrame

\* the mmap of start(): on failure the descriptor is closed and start returns false
sys_mmap ==
    /\ a_pc = "opened"
    /\ \E len \in RequestedLengths(a_who, page_size) :
          LET r == mmap_shared_rw(a_flags, len, page_size)
          IN  /\ a_errno' = r
              /\ IF r = "0"
                 THEN a_pc' = "mapped" /\ a_len' = len
                 ELSE a_pc' = "closed" /\ a_len' = 0
    /\ UNCHANGED <<a_who, a_flags>>
    /\ AttachFrame

\* stop(): munmap, close
sys_munmap ==
    /\ a_pc = "mapped"
    /\ a_pc' = "closed"
    /\ a_len' = 0
    /\ UNCHANGED <<a_who, a_flags, a_errno>>
    /\ AttachFrame

\* The words a store of `value` into a member of `size` bytes at `off` leaves
\* (little endian).
WordsOf(off, size, value) ==
    IF size = 8 THEN (off :> (value % U32)) @@ ((off + 4) :> (value \div U32))
    ELSE (off :> value)

RECURSIVE StoreMembers(_, _, _, _)
\* the stores of the first n members of a record at base
StoreMembers(fields, n, base, rec) ==
    IF n = 0 THEN <<>>
    ELSE WordsOf(base + OffsetOfField(fields, n), fields[n].size, rec[fields[n].name])
            @@ StoreMembers(fields, n - 1, base, rec)

\* a word of the region: what was stored there, else the zero of vmalloc_user
WordAt(mem, off) == IF off \in DOMAIN mem THEN mem[off] ELSE 0

\* the load of a member of `size` bytes at `off`
LoadMember(mem, off, size) ==
    IF size = 8 THEN WordAt(mem, off) + U32 * WordAt(mem, off + 4) ELSE WordAt(mem, off)

\* &events[i] in a layout
SlotBase(fields, i) == EventsOffset(fields) + i * SizeOf(fields)

\* gpio_isr stores the members its struct declares into events[i]
isr_store_record ==
    /\ \E i \in {0, RING_SLOTS - 1}, ts \in {1, U32 + 2}, ctr \in {1, U32 - 1}, pin \in {0, 1} :
          /\ slot_index' = i
          /\ sent' = Record3(ts, ctr, pin)
          /\ slot_words' = StoreMembers(KernelEventFields, Len(KernelEventFields),
                                        SlotBase(KernelEventFields, i), Record3(ts, ctr, pin))
    /\ got_status' = "none"
    /\ got' = Record3(0, 0, 0)
    /\ UNCHANGED <<page_size, a_who, a_pc, a_flags, a_len, a_errno>>

\* GpioIrqEvent event_data = m_shared_buf->events[i]: the copy of the members
\* the header declares, a fault if the slot is not inside the mapping
listener_load_record ==
    /\ a_pc = "mapped"
    /\ slot_index >= 0
    /\ got_status = "none"
    /\ LET base == SlotBase(UserEventFields, slot_index)
       IN  IF base + SizeOf(UserEventFields) <= a_len
           THEN /\ got_status' = "read"
                /\ got' = [n \in {"timestamp_ns", "event_counter", "pin_state"} |->
                            LET i == CHOOSE j \in 1 .. Len(UserEventFields) : UserEventFields[j].name = n
                            IN  LoadMember(slot_words, base + OffsetOfField(UserEventFields, i),
                                           UserEventFields[i].size)]
           ELSE /\ got_status' = "fault"
                /\ UNCHANGED got
    /\ UNCHANGED <<page_size, a_who, a_pc, a_flags, a_len, a_errno, slot_index, slot_words, sent>>

InitAttach ==
    /\ InitTransport /\ ktime = 0
    /\ QueueInit
    /\ AttachInit
    /\ page_size \in PageSizes
    /\ ReadInit /\ v1_ktime = 0
    /\ BenchInit
    /\ ConsumerInit /\ popped = <<>>

NextAttach ==
    \/ sys_open /\ UNCHANGED <<tvars, qvars, rvars, bvars, dvars>>
    \/ sys_mmap /\ UNCHANGED <<tvars, qvars, rvars, bvars, dvars>>
    \/ sys_munmap /\ UNCHANGED <<tvars, qvars, rvars, bvars, dvars>>
    \/ isr_store_record /\ UNCHANGED <<tvars, qvars, rvars, bvars, dvars>>
    \/ listener_load_record /\ UNCHANGED <<tvars, qvars, rvars, bvars, dvars>>

SpecAttach == InitAttach /\ [][NextAttach]_vars

\* ------------------- kernel module v1.0: spinlock-protected ring and read()
\* what an action of the module or of the reading process leaves alone
ReadFrame == UNCHANGED <<tvars, qvars, avars, bvars, dvars>>

\* static irqreturn_t gpio_isr(int irq, void *dev_id), v1.0: under event_lock
\* the record is written to k_buffer[k_head], k_head advances, and when it
\* reaches k_tail the oldest record is dropped by advancing k_tail.
gpio_isr_v1 ==
    /\ \E b \in BootCountsV1 : b <= v1_ktime /\ v1_ktime < b + ReadIrqs
    /\ \E state \in {0, 1} :
        LET ts == v1_ktime + 1
            counter == Add32(v1_total_interrupts, 1)
            new_head == (k_head + 1) % KBUF_SIZE_V1
        IN  /\ v1_ktime' = ts
            /\ v1_total_interrupts' = counter
            /\ k_buffer' = [k_buffer EXCEPT ![k_head] = Record3(ts, counter, state)]
            /\ k_head' = new_head
            /\ k_tail' = (IF new_head = k_tail THEN (k_tail + 1) % KBUF_SIZE_V1 ELSE k_tail)
            /\ k_written' = Append(k_written, Record3(ts, counter, state))
    /\ UNCHANGED <<rd_pc, local_event, rd_ret, rd_calls, rd_interrupted, rd_on_empty, rd_returned>>
    /\ ReadFrame

\* static __poll_t dev_poll, v1.0: POLLIN | POLLRDNORM when k_head != k_tail
dev_poll_v1 == k_head /= k_tail

\* The lengths a process passes to read(): a whole record, or less.
ReadLengths == {sizeof_GpioIrqEvent, sizeof_GpioIrqEvent - 8}

\* dev_read: if (len < sizeof(struct GpioIrqEvent)) return -EINVAL;
dev_read_Enter ==
    /\ rd_pc = "idle"
    /\ rd_calls < MaxReads
    /\ rd_calls' = rd_calls + 1
    /\ \E len \in ReadLengths :
        IF len < sizeof_GpioIrqEvent
        THEN rd_ret' = "EINVAL" /\ rd_pc' = "idle"
        ELSE rd_ret' = "none" /\ rd_pc' = "wait"
    /\ rd_interrupted' = FALSE
    /\ rd_on_empty' = FALSE
    /\ UNCHANGED <<v1_ktime, v1_total_interrupts, k_buffer, k_head, k_tail, local_event,
                   k_written, rd_returned>>
    /\ ReadFrame

\* wait_event_interruptible(wq, k_head != k_tail); the wait ends when the
\* condition holds, or with -ERESTARTSYS when a signal arrives for the sleeping
\* process; dev_read does not look at the value.
dev_read_Wait ==
    /\ rd_pc = "wait"
    /\ \/ k_head /= k_tail /\ rd_interrupted' = FALSE
       \/ k_head = k_tail /\ rd_interrupted' = TRUE
    /\ rd_pc' = "lock"
    /\ UNCHANGED <<v1_ktime, v1_total_interrupts, k_buffer, k_head, k_tail, local_event, rd_ret,
                   rd_calls, rd_on_empty, k_written, rd_returned>>
    /\ ReadFrame

\* spin_lock_irqsave; local_event = k_buffer[k_tail]; k_tail = (k_tail + 1) % KBUF_SIZE;
\* spin_unlock_irqrestore
dev_read_Take ==
    /\ rd_pc = "lock"
    /\ local_event' = k_buffer[k_tail]
    /\ k_tail' = (k_tail + 1) % KBUF_SIZE_V1
    /\ rd_on_empty' = (k_head = k_tail)
    /\ rd_pc' = "copy"
    /\ UNCHANGED <<v1_ktime, v1_total_interrupts, k_buffer, k_head, rd_ret, rd_calls,
                   rd_interrupted, k_written, rd_returned>>
    /\ ReadFrame

\* error_count = copy_to_user(buffer, &local_event, sizeof(struct GpioIrqEvent));
\* return error_count == 0 ? sizeof(struct GpioIrqEvent) : -EFAULT;
dev_read_Copy ==
    /\ rd_pc = "copy"
    /\ \E error_count \in {0, sizeof_GpioIrqEvent} :
        IF error_count = 0
        THEN rd_ret' = "record" /\ rd_returned' = Append(rd_returned, local_event)
        ELSE rd_ret' = "EFAULT" /\ UNCHANGED rd_returned
    /\ rd_pc' = "idle"
    /\ UNCHANGED <<v1_ktime, v1_total_interrupts, k_buffer, k_head, k_tail, local_event,
                   rd_calls, rd_interrupted, rd_on_empty, k_written>>
    /\ ReadFrame

dev_read == dev_read_Enter \/ dev_read_Wait \/ dev_read_Take \/ dev_read_Copy

InitRead ==
    /\ InitTransport /\ ktime = 0
    /\ QueueInit
    /\ AttachInit /\ page_size = PAGE_SIZE
    /\ ReadInit
    /\ BenchInit
    /\ ConsumerInit /\ popped = <<>>

NextRead ==
    \/ gpio_isr_v1
    \/ dev_read

SpecRead == InitRead /\ [][NextRead]_vars

\* --------------------- Benchmark/RpiFastIrq.cpp: the listener that uses read()
BenchFrame == UNCHANGED <<tvars, qvars, avars, dvars>>

\* what the listener leaves alone in the module: everything but k_tail, which
\* a read() advances
BenchKernelFrame ==
    UNCHANGED <<v1_ktime, v1_total_interrupts, k_buffer, k_head, rd_pc, local_event, rd_ret,
                rd_calls, rd_interrupted, rd_on_empty, k_written, rd_returned>>

\* bool RpiFastIrq::start(IrqCallback user_callback), the device opened
bm_start ==
    /\ bm_caller_pc = "idle"
    /\ ~bm_running
    /\ bm_pc = "none"
    /\ bm_fd' = DevFd
    /\ \E cb \in CallbackArgs : bm_callback' = cb
    /\ bm_running' = TRUE
    /\ bm_pc' = "loop"
    /\ bm_ret' = "none"
    /\ bytes_read' = 0
    /\ bm_reads' = 0
    /\ bm_invoked' = 0
    /\ UNCHANGED <<bm_caller_pc, bm_event_data, bm_received, k_tail>>
    /\ BenchKernelFrame /\ BenchFrame

\* void RpiFastIrq::stop(): m_running = false;
bm_stop_begin ==
    /\ bm_caller_pc = "idle"
    /\ bm_running
    /\ bm_running' = FALSE
    /\ bm_caller_pc' = "joining"
    /\ UNCHANGED <<bm_callback, bm_fd, bm_pc, bm_ret, bytes_read, bm_event_data, bm_reads,
                   bm_invoked, bm_received, k_tail>>
    /\ BenchKernelFrame /\ BenchFrame

\* m_listener_thread.join(); ::close(m_fd); m_fd = -1;
bm_stop_join ==
    /\ bm_caller_pc = "joining"
    /\ bm_pc = "exited"
    /\ bm_pc' = "none"
    /\ bm_fd' = -1
    /\ bm_caller_pc' = "idle"
    /\ UNCHANGED <<bm_running, bm_callback, bm_ret, bytes_read, bm_event_data, bm_reads,
                   bm_invoked, bm_received, k_tail>>
    /\ BenchKernelFrame /\ BenchFrame

bm_stop == bm_stop_begin \/ bm_stop_join

\* while (m_running)
bm_Check ==
    /\ bm_pc = "loop"
    /\ bm_pc' = (IF bm_running THEN "poll" ELSE "exited")
    /\ UNCHANGED <<bm_running, bm_callback, bm_fd, bm_caller_pc, bm_ret, bytes_read,
                   bm_event_data, bm_reads, bm_invoked, bm_received, k_tail>>
    /\ BenchKernelFrame /\ BenchFrame

\* int ret = ::poll(&pfd, 1, timeout_ms); ret > 0 with POLLIN when the device
\* is readable; otherwise 0 after the timeout, or -1 with EINTR or with
\* another error, which ends the loop.
bm_Poll ==
    /\ bm_pc = "poll"
    /\ \/ dev_poll_v1 /\ bm_ret' = "ready" /\ bm_pc' = "read"
       \/ ~dev_poll_v1 /\ bm_ret' \in {"timeout", "EINTR"} /\ bm_pc' = "loop"
       \/ bm_ret' = "error" /\ bm_pc' = "exited"
    /\ bm_reads' = 0
    /\ bm_invoked' = 0
    /\ UNCHANGED <<bm_running, bm_callback, bm_fd, bm_caller_pc, bytes_read, bm_event_data,
                   bm_received, k_tail>>
    /\ BenchKernelFrame /\ BenchFrame

\* What read() can return for sizeof(event_data) bytes: a whole record (the
\* v1.0 module), fewer bytes, or -1 (a driver without a read operation, as the
\* v2.0 module).
ReadResults == {sizeof_GpioIrqEvent, sizeof_GpioIrqEvent - 8, -1}

\* GpioIrqEvent event_data; ssize_t bytes_read = ::read(m_fd, &event_data, sizeof(event_data));
\* a whole record is the one dev_read takes at k_tail.
bm_Read ==
    /\ bm_pc = "read"
    /\ \E n \in ReadResults :
        /\ bytes_read' = n
        /\ IF n = sizeof_GpioIrqEvent
           THEN /\ bm_event_data' = k_buffer[k_tail]
                /\ k_tail' = (k_tail + 1) % KBUF_SIZE_V1
           ELSE UNCHANGED <<bm_event_data, k_tail>>
    /\ bm_reads' = bm_reads + 1
    /\ bm_pc' = "dispatch"
    /\ UNCHANGED <<bm_running, bm_callback, bm_fd, bm_caller_pc, bm_ret, bm_invoked, bm_received>>
    /\ BenchKernelFrame /\ BenchFrame

\* Faulty variant of CompleteRead: any positive count is taken for a record.
CompleteRead_AnyBytes(n) == n > 0

\* if (bytes_read == sizeof(GpioIrqEvent))
CompleteRead(n) == n = sizeof_GpioIrqEvent

\* if (bytes_read == sizeof(GpioIrqEvent)) { if (m_callback) m_callback(event_data); }
\* else if (bytes_read > 0) { log } else { log }
bm_Dispatch ==
    /\ bm_pc = "dispatch"
    /\ IF CompleteRead(bytes_read) /\ bm_callback = "set"
       THEN bm_invoked' = bm_invoked + 1 /\ bm_received' = bm_event_data
       ELSE UNCHANGED <<bm_invoked, bm_received>>
    /\ bm_pc' = "loop"
    /\ UNCHANGED <<bm_running, bm_callback, bm_fd, bm_caller_pc, bm_ret, bytes_read,
                   bm_event_data, bm_reads, k_tail>>
    /\ BenchKernelFrame /\ BenchFrame

bm_listener_thread_func == bm_Check \/ bm_Poll \/ bm_Read \/ bm_Dispatch

InitBench == InitRead

NextBench ==
    \/ gpio_isr_v1
    \/ bm_start
    \/ bm_stop
    \/ bm_listener_thread_func

SpecBench == InitBench /\ [][NextBench]_vars

\* ------------------------------ Benchmark/benchmark.cpp: the consumer loop
\* if (g_event_buffer.pop(event)) { ... }: the body for one popped event
consume_event ==
    /\ consumed < Len(popped)
    /\ LET event == popped[consumed + 1]
       IN  /\ dropped_events' =
                 (IF last_counter /= 0 /\ event.event_counter /= Add32(last_counter, 1)
                  THEN Add32(dropped_events, Sub32(Sub32(event.event_counter, last_counter), 1))
                  ELSE dropped_events)
           /\ last_counter' = event.event_counter
           /\ deltas' = (IF last_timestamp /= 0
                         THEN Append(deltas, event.timestamp_ns - last_timestamp)
                         ELSE deltas)
           /\ last_timestamp' = event.timestamp_ns
    /\ consumed' = consumed + 1
    /\ UNCHANGED popped
    /\ UNCHANGED <<tvars, qvars, avars, rvars, bvars>>

InitConsumer ==
    /\ InitTransport /\ ktime = 0
    /\ QueueInit
    /\ AttachInit /\ page_size = PAGE_SIZE
    /\ ReadInit /\ v1_ktime = 0
    /\ BenchInit
    /\ ConsumerInit

NextConsumer == consume_event

SpecConsumer == InitConsumer /\ [][NextConsumer]_vars

\* ------------------------------------------------------------ properties
\* The cursors as unbounded counts of records.
UTail == Published - Sub32(head, tail)
ULocalTail == Published - Sub32(head, local_tail)

\* The callback is about to be invoked with event_data.
AtCallback == w_pc = "cb" /\ m_callback = "set"

\* The listener is waiting and has drained everything that was published.
CaughtUp == w_pc \in {"loop", "poll"} /\ head = tail /\ isr_pc = "idle"

\* A drain pass is complete (its tail store is next) and no interrupt was
\* served since the pass loaded head.
QuietPassEnd == w_pc = "store" /\ head = current_head /\ isr_pc = "idle" /\ m_callback = "set"

TypeOK ==
    /\ head \in 0 .. (U32 - 1)
    /\ tail \in 0 .. (U32 - 1)
    /\ total_interrupts \in 0 .. (U32 - 1)
    /\ local_tail \in 0 .. (U32 - 1)
    /\ m_fd \in {-1, DevFd}
    /\ m_mmap_size \in {0, MmapSize}
    /\ caller_pc \in {"idle", "joining", "unmap", "close", "destroyed"}
    /\ start_ret \in {"none", "true", "false"}
    /\ last_call \in {"none", "start_ok", "start_already_running", "start_open_failed",
                      "start_mmap_failed", "stop_noop", "stop", "stop_done"}
    /\ w_sched \in {"SCHED_OTHER", "SCHED_FIFO"}
    /\ poll_ret \in {"none", "EINTR", "error"}
    /\ m_shared_buf \in {"null", "mapped", "MAP_FAILED"}
    /\ isr_pc \in {"idle", "ts", "ctr", "publish"}
    /\ w_pc \in {"none", "entry", "resync", "loop", "poll", "load", "drain", "read2", "cb",
                 "store", "exited"}

\* C1: while no interrupt has begun on a full buffer, the n-th callback since
\* the resynchronization receives exactly the n-th record published after it
\* (in order, none twice, none skipped), and once the listener has caught up
\* the callback has been invoked exactly as many times as records were published.
C1_InOrderExactlyOnce ==
    (Synced /\ ~lapped /\ m_callback = "set") =>
        /\ ncb = Sub32(local_tail, resyncAt % U32)
        /\ (w_pc = "cb" => event_data = RecordOf(resyncAt + ncb + 1))
        /\ (CaughtUp => ncb = Published - resyncAt)

\* C1 witness: three records published and drained one after the other.
C1_Witness ==
    /\ CaughtUp /\ ~lapped /\ m_callback = "set"
    /\ ncb = 3 /\ Published = resyncAt + 3

\* The records still in the slots when start() was called.
StaleRecords ==
    {RecordOf(n) : n \in (IF startHead > KBUF_SIZE THEN startHead - KBUF_SIZE + 1 ELSE 1) .. startHead}

C3_Original ==
    (w_pc = "cb") => event_data = RecordOf(ULocalTail + 1)

\* C3 amended: the handler stores head only after both fields of the slot
\* are written, the last published slot holds the complete record, and, while
\* no interrupt has begun on a full buffer, every record the consumer copies
\* is the complete record of its count.
C3_CompleteRecordUnlessLapped ==
    /\ (isr_pc /= "idle" => head = isr_head)
    /\ (Published > 0 => events[Sub32(head, 1) % KBUF_SIZE] = RecordOf(Published))
    /\ ((w_pc = "cb" /\ ~lapped) => event_data = RecordOf(ULocalTail + 1))
    /\ ((w_pc = "read2" /\ ~lapped) =>
            \A f \in w_read :
                IF f = "ts" THEN event_data.timestamp_ns = ULocalTail + 1
                ELSE event_data.event_counter = (ULocalTail + 1) % U32)

\* C3 witness: the consumer holds a complete copy while the handler is in the
\* middle of writing the next record.
C3_Witness == w_pc = "cb" /\ ~lapped /\ isr_pc = "ctr" /\ Sub32(current_head, local_tail) >= 1

Caller == start \/ stop \/ dtor_RpiFastIrq

\* C4: no step of gpio_isr changes tail; no step of the listener (its thread,
\* start, stop) changes head or a slot.
C4_SingleWriter ==
    [][ /\ (gpio_isr => tail' = tail)
        /\ ((listener_thread_func \/ Caller) => (head' = head /\ events' = events)) ]_vars

\* C4 witness: both sides have written their cursor.
C4_Witness == CaughtUp /\ ncb >= 2 /\ tail = head /\ tail /= 0

\* The event_counter values of a sequence of records.
CountersOf(log) == {log[i].event_counter : i \in 1 .. Len(log)}

\* C5: a drain pass that found KBUF_SIZE + 5 records published since the last
\* one, with no interrupt served during the pass, invokes the callback once per
\* count, hands it only complete records, and hands it fewer than KBUF_SIZE + 5
\* distinct sequence numbers.
C5_OverflowLosesButNeverCorrupts ==
    (QuietPassEnd /\ Sub32(current_head, tail) = KBUF_SIZE + 5) =>
        /\ Len(delivered) = KBUF_SIZE + 5
        /\ \A i \in 1 .. Len(delivered) :
              /\ delivered[i] = RecordOf(delivered[i].timestamp_ns)
              /\ delivered[i].timestamp_ns \in 1 .. Published
        /\ Cardinality(CountersOf(delivered)) < KBUF_SIZE + 5

\* C5 witness: such a pass has completed.
C5_Witness == QuietPassEnd /\ Sub32(current_head, tail) = KBUF_SIZE + 5

\* The state part of C6: what a quiet pass over k <= KBUF_SIZE records has delivered.
C6_SinglePassInv ==
    (QuietPassEnd /\ Sub32(current_head, tail) <= KBUF_SIZE) =>
        /\ delivered = [i \in 1 .. Sub32(current_head, tail) |-> RecordOf(UTail + i)]
        /\ local_tail = head

\* C6: a drain pass that found k <= KBUF_SIZE records, with no interrupt
\* served during the pass, has handed the callback exactly those k records in
\* publication order, and its tail store makes tail equal to head.
C6_SinglePass ==
    /\ []C6_SinglePassInv
    /\ [][(QuietPassEnd /\ w_pc' /= "store") => tail' = head']_vars

\* C6 witness: a pass that drained a full buffer.
C6_Witness == QuietPassEnd /\ Sub32(current_head, tail) = KBUF_SIZE

\* Records the callback has completed for, as a count.
Dispatched == resyncAt + ncb

\* The listener has left the state in which C7 promises delivery.
Excused == ~m_running \/ ~Synced \/ lapped \/ m_callback /= "set"

\* C7: poll reports readiness exactly when head /= tail, and no record
\* published after the resynchronization stays undispatched: again and again
\* the callback has returned for every record published so far, unless the
\* listener is stopped, its wait fails fatally, or the buffer overflows.
C7_NoLostWakeup ==
    /\ [][(w_pc = "poll" /\ w_pc' = "load") => head /= tail]_vars
    /\ [][(w_pc = "poll" /\ w_pc' = "loop") => head = tail]_vars
    /\ []<>(Excused \/ Dispatched >= Published)

\* C7 witness: a record was published between the load of head and the store of tail.
C7_Witness == w_pc = "store" /\ head /= local_tail /\ ~lapped /\ m_running

\* The state part of C8: tail counts no more records than callbacks have returned.
C8_TailInv ==
    (Synced /\ m_callback = "set") => Sub32(tail, resyncAt % U32) <= ncb

\* C8: the shared tail never covers a record at or above the resynchronization
\* point whose callback has not returned, and it is stored only by the
\* resynchronization or at the end of a pass, with the count the pass reached.
C8_TailAfterCallbacks ==
    /\ []C8_TailInv
    /\ [][tail' /= tail =>
            \/ w_pc = "resync"
            \/ (w_pc = "store" /\ ~DrainMore /\ tail' = local_tail)]_vars

\* C8 witness: a callback is pending for a record while tail is still behind it.
C8_Witness == AtCallback /\ ncb >= 1 /\ Sub32(local_tail, tail) >= 1

\* C9 as stated: delivery is in order and exactly once as long as head - tail
\* never exceeded KBUF_SIZE.
C9_Original ==
    (w_pc = "cb" /\ ~everOver /\ m_callback = "set") => event_data = RecordOf(Dispatched + 1)

\* C9 amended: as long as no interrupt began with KBUF_SIZE or more records
\* unconsumed, the slot and the backlog computed on the wrapped u32 cursors are
\* those of the unbounded counts, every pass hands over exactly the records of
\* its counts in order, and it ends only when it reached the head it loaded.
C9_WrapNeedsNoSpecialCase ==
    (Synced /\ ~lapped /\ m_callback = "set") =>
        /\ SlotOf(local_tail) = Dispatched % KBUF_SIZE
        /\ Sub32(head, local_tail) = Published - Dispatched
        /\ delivered = [i \in 1 .. Len(delivered) |-> RecordOf(UTail + i)]
        /\ Len(delivered) = Sub32(local_tail, tail)
        /\ (w_pc = "store" => local_tail = current_head)

\* C9 witness: a pass has delivered records on both sides of the cursor wrap.
C9_Witness ==
    /\ w_pc = "store" /\ ~lapped /\ m_callback = "set"
    /\ Len(delivered) >= 2
    /\ delivered[1].event_counter > delivered[Len(delivered)].event_counter
    /\ local_tail < tail

\* C10: every store of head moves it up by one, and the record it publishes
\* carries the new head as event_counter: 1 for the first, then 2, 3, ...
C10_SequenceNumbers ==
    /\ [](isr_pc = "idle" => total_interrupts = head)
    /\ [][head' /= head =>
            /\ head' = Add32(head, 1)
            /\ events'[head % KBUF_SIZE].event_counter = head'
            /\ events'[head % KBUF_SIZE].timestamp_ns = Published']_vars

\* C10 witness: the second record after insmod has been published.
C10_Witness == isr_pc = "idle" /\ ktime = 2 /\ events[1].event_counter = 2 /\ events[0].event_counter = 1

\* ------------------------------------------------- start, stop, destruction
\* What a call of start() or stop() can touch besides its result: the members
\* of the listener, its resources and its thread.
ListenerState == <<m_fd, fd_open, m_shared_buf, region_mapped, m_mmap_size, m_running,
                   m_callback, w_pc, w_sched>>

\* The listener holds nothing: no handle, no mapping, no thread.
HoldsNothing ==
    /\ ~fd_open /\ m_fd = -1
    /\ ~region_mapped /\ m_shared_buf /= "mapped"
    /\ w_pc = "none"

\* The listener is Idle and a call of start() would go on to open the device.
Idle == caller_pc = "idle" /\ ~m_running

\* C11: a call of start() on a listener whose running flag is set returns
\* false and leaves the handle, the mapping, the flag, the stored callback, the
\* thread and the shared region as they were; the thread is not started anew.
C11_RejectedWhenRunning ==
    [][(start /\ m_running) =>
          /\ start_ret' = "false"
          /\ last_call' = "start_already_running"
          /\ UNCHANGED <<ListenerState, wvars, kvars, tail, hvars>>]_vars

\* C11 witness: start() was rejected while the thread was about to invoke the callback.
C11_Witness ==
    last_call = "start_already_running" /\ m_running /\ AtCallback /\ start_ret = "false"

\* C12: a call of start() whose open() fails returns false and changes no
\* member, resource or thread; the listener is left Idle, holding nothing, so
\* that start() can be called again.
C12_OpenFailureChangesNothing ==
    /\ [](last_call = "start_open_failed" => (Idle /\ HoldsNothing /\ start_ret = "false"))
    /\ [][(start /\ last_call' = "start_open_failed") =>
            UNCHANGED <<ListenerState, wvars, kvars, tail, hvars>>]_vars

\* C12 witness: open() failed on a listener that had run before and keeps its callback.
C12_Witness ==
    last_call = "start_open_failed" /\ m_callback = "set" /\ m_mmap_size = MmapSize /\ tail /= 0

\* C13 as stated: after a failed mmap() the state of the listener equals the
\* state before the call.
C13_Original ==
    [][(start /\ last_call' = "start_mmap_failed") => UNCHANGED ListenerState]_vars

\* C13 amended: after a failed mmap() the handle is closed, nothing is mapped,
\* no thread runs, the listener is Idle and the flag and the callback are as
\* before; m_shared_buf holds MAP_FAILED and m_mmap_size the computed size.
C13_MmapFailureReleasesHandle ==
    /\ [](last_call = "start_mmap_failed" => (Idle /\ HoldsNothing /\ start_ret = "false"))
    /\ [][(start /\ last_call' = "start_mmap_failed") =>
            /\ UNCHANGED <<m_fd, fd_open, region_mapped, m_running, m_callback, w_pc, w_sched>>
            /\ m_shared_buf' = "MAP_FAILED"
            /\ m_mmap_size' = MmapSize
            /\ UNCHANGED <<wvars, kvars, tail, hvars>>]_vars

\* C13 witness: the first start() of a listener failed in mmap().
C13_Witness ==
    last_call = "start_mmap_failed" /\ m_shared_buf = "MAP_FAILED" /\ m_callback = "empty"

\* C14: the value start() returns after a failed open() or mmap() differs
\* from the value it returns when the listener is already running.
C14_FailureDistinctFromRejection ==
    last_call \in {"start_open_failed", "start_mmap_failed"} => start_ret /= RejectedReturn

\* C14, case: start() has been rejected on a running listener.
C14_Witness == last_call = "start_already_running" /\ start_ret = RejectedReturn

\* C15: start() returns true only with the handle open, the region mapped,
\* the callback stored, the flag set and the thread launched at its entry;
\* no path of start() stores tail or changes the scheduling policy, which only
\* the thread does, at its entry, where it also resynchronizes the cursor.
C15_SuccessMeansLaunched ==
    /\ [](last_call = "start_ok" =>
            /\ start_ret = "true" /\ m_running
            /\ fd_open /\ m_fd = DevFd
            /\ region_mapped /\ m_shared_buf = "mapped"
            /\ w_pc /= "none")
    /\ [][start =>
            /\ tail' = tail
            /\ (start_ret' = "true" =>
                    w_pc' = "entry" /\ w_sched' = "SCHED_OTHER" /\ m_callback' \in CallbackArgs)
            /\ (start_ret' /= "true" => UNCHANGED <<w_pc, w_sched>>)]_vars
    /\ [][(w_sched' = "SCHED_FIFO" /\ w_sched /= "SCHED_FIFO") => w_pc = "entry"]_vars
    /\ [][(w_pc = "entry" /\ w_pc' /= "entry") => (listener_thread_func /\ local_tail' = head)]_vars

\* C15 witness: start() has returned true before the thread resynchronized tail.
C15_Witness == last_call = "start_ok" /\ start_ret = "true" /\ w_pc = "entry" /\ head /= tail

\* C16: stop() on a running listener clears the flag, then joins the thread,
\* then unmaps, then closes; when it has returned the listener is Idle and
\* holds nothing, and start() can go through again.
C16_StopOrder ==
    /\ [](caller_pc \in {"joining", "unmap", "close"} => ~m_running)
    /\ [](caller_pc = "joining" => (fd_open /\ region_mapped))
    /\ [](caller_pc \in {"unmap", "close"} => w_pc = "none")
    /\ [](caller_pc = "unmap" => fd_open)
    /\ [](caller_pc = "close" => ~region_mapped)
    /\ []((last_call = "stop_done" /\ caller_pc = "idle") =>
            (Idle /\ HoldsNothing /\ m_shared_buf = "null" /\ ENABLED start_Ok))

\* C16 witness: a listener that was stopped has been started again.
C16_Witness == last_call = "start_ok" /\ w_pc = "entry" /\ tail /= 0

\* C17: stop() on a listener that is not running changes nothing, and a
\* join, unmap or close is only ever made by a stop() that found the flag set,
\* on a thread, mapping or handle that is held.
C17_StopIdempotent ==
    /\ [](fd_open <=> m_fd >= 0)
    /\ [](region_mapped <=> m_shared_buf = "mapped")
    /\ [][stop_noop => UNCHANGED <<ListenerState, caller_pc, in_dtor, wvars, kvars, tail, hvars>>]_vars
    /\ [][(caller_pc = "idle" /\ caller_pc' = "joining") => m_running]_vars
    /\ [][(fd_open /\ ~fd_open') => caller_pc = "close"]_vars
    /\ [][(region_mapped /\ ~region_mapped') => caller_pc = "unmap"]_vars

\* C17 witness: stop() was called on a listener that had been run and stopped.
C17_Witness ==
    last_call = "stop_noop" /\ caller_pc = "idle" /\ m_shared_buf = "null" /\ tail /= 0

\* C18: the callback is invoked only while the flag is set or stop() is
\* blocked in join; stop() leaves join only when the thread has exited, and a
\* pending callback is always carried out; once stop() is past the join, and
\* until start() succeeds again, there is no thread.
C18_NoCallbackAfterStop ==
    /\ []((caller_pc \in {"unmap", "close", "destroyed"} \/ Idle) => w_pc = "none")
    /\ [][W_Callback => (m_running \/ caller_pc = "joining")]_vars
    /\ [][(caller_pc = "joining" /\ caller_pc' /= "joining") => w_pc \in {"exited", "none"}]_vars
    /\ [][(w_pc = "cb" /\ w_pc' /= "cb") => W_Callback]_vars

\* C18 witness: stop() is blocked in join while the callback is about to run.
C18_Witness == caller_pc = "joining" /\ AtCallback

\* C19: once the flag is cleared the thread begins no new wait: a wait in
\* progress with nothing pending ends in the test of the flag, the test ends
\* the thread, and stop() returns.
C19_ShutdownTerminates ==
    /\ [][(~m_running /\ w_pc /= "poll") => w_pc' /= "poll"]_vars
    /\ [][(~m_running /\ w_pc = "poll" /\ head = tail /\ w_pc' /= "poll") =>
            w_pc' \in {"loop", "exited"}]_vars
    /\ [][(~m_running /\ w_pc = "loop" /\ w_pc' /= "loop") => w_pc' = "exited"]_vars
    /\ (caller_pc = "joining") ~> (caller_pc \in {"idle", "destroyed"})

\* C19 witness: the flag was cleared while the thread waited with nothing pending.
C19_Witness == caller_pc = "joining" /\ w_pc = "poll" /\ head = tail /\ isr_pc = "idle"

\* C20: between calls, the handle, the mapping and the thread are held exactly
\* when the flag is set, and a destroyed listener holds nothing.
C20_ResourceOwnership ==
    /\ (caller_pc \in {"idle", "destroyed"} =>
            /\ (m_running <=> fd_open)
            /\ (m_running <=> region_mapped)
            /\ (m_running <=> w_pc /= "none")
            /\ (~m_running => HoldsNothing))
    /\ (caller_pc = "destroyed" => (~m_running /\ HoldsNothing))

\* C20 witness: a running listener has been destroyed.
C20_Witness == caller_pc = "destroyed" /\ in_dtor /\ last_call = "stop_done"

\* ------------------------------------------------ errors inside the thread
\* C21: a wait that fails with an error other than EINTR ends the loop and
\* nothing else: the step changes no member, no resource and no cursor; from
\* then on no callback is invoked and tail is not stored; while the flag stays
\* set the handle and the mapping are held, the thread stays dead and start()
\* is rejected; a thread is launched again only by a start() that follows a
\* complete stop(), and that stop() joins, unmaps and closes as usual.
C21_FatalWaitError ==
    /\ [](poll_ret = "error" => w_pc \in {"exited", "none"})
    /\ []((poll_ret = "error" /\ m_running) => (w_pc = "exited" /\ fd_open /\ region_mapped))
    /\ []((poll_ret = "error" /\ m_running /\ caller_pc = "idle") =>
            (ENABLED start_AlreadyRunning /\ ~ENABLED start_Ok /\ ENABLED stop_begin))
    /\ [][(poll_ret' = "error" /\ poll_ret /= "error") =>
            /\ w_pc = "poll" /\ w_pc' = "exited"
            /\ UNCHANGED <<lvars, kvars, tail, hvars>>]_vars
    /\ [][poll_ret = "error" => (~W_Callback /\ ~W_StoreTail /\ tail' = tail)]_vars
    /\ [][(poll_ret = "error" /\ poll_ret' = "error") => UNCHANGED <<ncb, delivered>>]_vars
    /\ [][(poll_ret = "error" /\ m_running /\ start) =>
            (start_ret' = RejectedReturn /\ UNCHANGED <<ListenerState, wvars>>)]_vars
    /\ [][(poll_ret = "error" /\ w_pc' /= w_pc) =>
            \/ stop_join /\ ~m_running /\ w_pc' = "none"
            \/ start_Ok /\ HoldsNothing /\ w_pc' = "entry"]_vars
    /\ [][(poll_ret = "error" /\ stop_close) => (HoldsNothing' /\ ~m_running')]_vars

\* C21 witness: the wait failed with records pending, and start() was then rejected.
C21_Witness ==
    /\ poll_ret = "error" /\ m_running /\ w_pc = "exited"
    /\ last_call = "start_already_running" /\ head /= tail /\ m_callback = "set"

\* C22: a wait interrupted by a signal is retried: the step invokes no
\* callback and changes neither cursor, nor anything but the position of the
\* thread; the thread tests the flag next and, if it is set, waits again; the
\* cursor it resumes from is the shared tail, so that every record published
\* from there on is still ahead of it.
C22_EintrRetried ==
    /\ [](poll_ret = "EINTR" => (w_pc = "loop" /\ local_tail = tail))
    /\ [][(poll_ret' = "EINTR" /\ poll_ret /= "EINTR") =>
            /\ w_pc = "poll" /\ w_pc' = "loop"
            /\ UNCHANGED <<local_tail, tail, current_head, event_data, w_read, w_sched>>
            /\ UNCHANGED <<lvars, kvars, hvars>>]_vars
    /\ [][(poll_ret = "EINTR" /\ w_pc' /= w_pc) =>
            /\ W_Check
            /\ w_pc' = IF m_running THEN "poll" ELSE "exited"
            /\ (m_running => UNCHANGED <<local_tail, tail, ncb, delivered>>)]_vars
    /\ []((poll_ret = "EINTR" /\ ~lapped /\ m_callback = "set") =>
            Dispatched = ULocalTail)

\* C22 witness: a wait was interrupted after two records were delivered, and
\* a third was published before the flag was tested again.
C22_Witness ==
    /\ poll_ret = "EINTR" /\ m_running /\ ~lapped /\ m_callback = "set"
    /\ ncb = 2 /\ Sub32(head, tail) = 1

\* C23: the thread goes from its entry to the resynchronization and from
\* there into the loop whatever sched_setscheduler returned, and under either
\* policy the callbacks made since the resynchronization received, in order,
\* the records published after it (while no interrupt began on a full buffer).
C23_ElevationFailureNotFatal ==
    /\ [][(w_pc = "entry" /\ w_pc' /= "entry") =>
            (w_pc' = "resync" /\ local_tail' = head /\ w_sched' \in {"SCHED_FIFO", "SCHED_OTHER"})]_vars
    /\ [][(w_pc = "resync" /\ w_pc' /= "resync") => (w_pc' = "loop" /\ tail' = local_tail)]_vars
    /\ [](\A policy \in {"SCHED_FIFO", "SCHED_OTHER"} :
            (w_sched = policy /\ Synced /\ ~lapped /\ m_callback = "set") =>
                /\ ncb = Sub32(local_tail, resyncAt % U32)
                /\ \A i \in 1 .. Len(delivered) :
                      delivered[i] = RecordOf(resyncAt + ncb - Len(delivered) + i))

\* C23 witness: the elevation failed and the thread has delivered two records in one pass.
C23_Witness ==
    /\ w_sched = "SCHED_OTHER" /\ QuietPassEnd /\ m_running /\ ~lapped
    /\ ncb = 2 /\ Len(delivered) = 2

\* ------------------------------------------------------- slots and overflow
\* The slots of the counts in [tail, head) hold the complete records of these counts.
UnreadIntact ==
    \A k \in 0 .. (Sub32(head, tail) - 1) :
        events[Add32(tail, k) % KBUF_SIZE] = RecordOf(UTail + k + 1)

\* C30 as stated: whenever head - tail <= KBUF_SIZE every slot of a count in
\* [tail, head) holds the complete record of that count.
C30_Original ==
    Sub32(head, tail) <= KBUF_SIZE => UnreadIntact

\* C30 amended: the slots of [tail, head) are intact while head - tail is
\* below KBUF_SIZE, and at head - tail = KBUF_SIZE until gpio_isr writes the
\* timestamp of its next record; from that write on the slot of count tail is
\* overwritten although head - tail is still KBUF_SIZE.
C30_OverwriteBeginsAtCapacity ==
    /\ Sub32(head, tail) < KBUF_SIZE => UnreadIntact
    /\ (Sub32(head, tail) = KBUF_SIZE /\ isr_pc \in {"idle", "ts"}) => UnreadIntact
    /\ (Sub32(head, tail) = KBUF_SIZE /\ isr_pc \in {"ctr", "publish"}) =>
            events[tail % KBUF_SIZE] /= RecordOf(UTail + 1)

\* C30 witness: the buffer is full behind a running listener and the handler
\* has been entered for the next interrupt.
C30_Witness == Sub32(head, tail) = KBUF_SIZE /\ isr_pc = "ts" /\ Synced /\ m_running

\* ------------------------------------------------------ the secondary queue
\* The items in the queue: those of counts m_tail .. m_head - 1.
Queued == [k \in 1 .. (m_head - m_tail) |-> m_data[(m_tail + k - 1) % QSize]]

\* C24: push on a full queue returns false at once and changes neither
\* cursor nor any slot; the refused item is not queued and not offered again;
\* push never waits (each of its steps can always be taken), and the slot it
\* writes holds no item that is still queued, nor the item pop is reading.
C24_PushDropsNewestWhenFull ==
    /\ [][(push_pc = "check" /\ push_pc' /= "check" /\ push_current_head - m_tail >= QSize) =>
            /\ push_ret' = "false" /\ push_pc' = "idle"
            /\ UNCHANGED <<m_head, m_tail, m_data, q_accepted>>]_vars
    /\ [][(push_pc = "idle" /\ push_pc' /= "idle") => push_item' = RecordOf(push_calls')]_vars
    /\ [](push_ret = "false" => \A i \in 1 .. Len(q_accepted) : q_accepted[i] /= push_item)
    /\ [](push_pc /= "idle" => ENABLED push)
    /\ [](push_pc = "write" =>
            /\ \A k \in m_tail .. (m_head - 1) : k % QSize /= push_current_head % QSize
            /\ (pop_pc = "read" => pop_current_tail % QSize /= push_current_head % QSize))
    /\ [][m_data' /= m_data => Queued' = Queued]_vars

\* C24 witness: push has just returned false on a full queue.
C24_Witness ==
    /\ push_ret = "false" /\ push_pc = "idle" /\ m_head - m_tail = QSize
    /\ push_item = RecordOf(QSize + 1)

\* C25: the items pop returned are, in order, the first of the items push
\* accepted, with the values pushed; the queue holds the rest, in order; pop
\* returns false exactly when the head it loads equals tail, and then changes
\* neither the caller's item nor a cursor; a call that returns true advances
\* tail by one.
C25_QueueFifo ==
    /\ [](m_tail <= m_head /\ m_head - m_tail <= QSize)
    /\ [](Len(q_returned) = m_tail /\ Len(q_accepted) = m_head)
    /\ [](\A i \in 1 .. Len(q_returned) : q_returned[i] = q_accepted[i])
    /\ [](\A k \in 1 .. Len(Queued) : Queued[k] = q_accepted[m_tail + k])
    /\ [](\A i \in 1 .. Len(q_accepted) : q_accepted[i].event_counter > 0)
    /\ [](\A i, j \in 1 .. Len(q_accepted) : i < j => q_accepted[i].event_counter < q_accepted[j].event_counter)
    /\ [][(pop_pc = "check" /\ pop_pc' /= "check") =>
            /\ (pop_ret' = "false") <=> (pop_current_tail = m_head)
            /\ (pop_ret' = "false") => (pop_pc' = "idle" /\ UNCHANGED <<received_event, m_head, m_tail, m_data>>)]_vars
    /\ [][(pop_ret' = "true" /\ pop_ret /= "true") =>
            (m_tail' = m_tail + 1 /\ received_event = q_accepted[m_tail + 1])]_vars
    /\ []((pop_pc = "read" /\ push_pc = "write") =>
            pop_current_tail % QSize /= push_current_head % QSize)

\* C25 witness: three items went through a queue of two slots while a
\* further push was in progress, and an item was refused in between.
C25_Witness ==
    /\ Len(q_returned) = 3 /\ pop_ret = "true" /\ push_pc = "store"
    /\ push_calls > Len(q_accepted) + 1

\* ------------------------------------------------------ attaching and layout
\* C26: a listener that is about to map the region has computed the length
\* the kernel module allocated, and every slot of a region a listener has
\* mapped lies inside the mapping.
C26_RegionSizeIdentical ==
    /\ (a_pc = "opened" /\ a_who \in Listeners) =>
            UserMapLen(HeaderOf(a_who), page_size) = KernelAllocLen(page_size)
    /\ (a_pc = "mapped" /\ a_who \in Listeners) =>
            \A i \in {0, RING_SLOTS - 1} :
                SlotBase(UserEventFields, i) + SizeOf(UserEventFields) <= a_len

\* C26, case: the listener of CountsPerSecond_Plot has opened the device on a
\* kernel with 4 KiB pages.
C26_Witness == a_pc = "opened" /\ a_who = "CountsPerSecond_Plot" /\ page_size = 4096

\* C27: a mapping is in place only with the length the kernel module allocated.
C27_MismatchedLengthFails ==
    a_pc = "mapped" => a_len = KernelAllocLen(page_size)

\* C27, case: a request longer than the allocation has been refused.
C27_Witness == a_pc = "closed" /\ a_errno = "EINVAL" /\ a_who = "mmap_caller"

\* C28: a listener opens the device read/write before it maps the region
\* writable and shared.
C28_WritableMappingOpenedReadWrite ==
    (a_pc = "opened" /\ a_who \in Listeners) => a_flags = "O_RDWR"

\* C28, case: the mapping of a listener that opened the device read-only was refused.
C28_Witness == a_pc = "closed" /\ a_who = "CountsPerSecond_Plot" /\ a_errno = "EACCES"

\* C29: the record the listener copies out of a slot equals, member for
\* member, the record gpio_isr had to write into it.
C29_RoundTrip ==
    got_status = "read" => got = sent

\* C29, case: a record with the pin high was written to the last slot and read back.
C29_Witness ==
    /\ got_status = "read" /\ slot_index = RING_SLOTS - 1
    /\ sent.pin_state = 1 /\ sent.timestamp_ns = U32 + 2
    /\ got.timestamp_ns = sent.timestamp_ns /\ got.event_counter = sent.event_counter

\* ---------------------------------------------------- cursors of the transport
\* C31 as stated: behind a running listener every record with count in
\* [tail, head) is readable (its slot holds it), and the thread waits with its
\* local tail equal to the shared tail.
C31_Original ==
    /\ Synced => UnreadIntact
    /\ w_pc = "poll" => local_tail = tail

\* C31 amended: tail is the low 32 bits of a count that never exceeds the
\* count of head and never decreases, across drain passes and restarts; the
\* device is readable exactly when head and tail differ; the count whose slot
\* the thread copies lies in [tail, head); the thread enters a wait with its
\* local tail equal to the shared tail; the records of [tail, head) are all in
\* their slots while head - tail is below KBUF_SIZE, or equal to it with no
\* slot write begun, and not beyond.
C31_CursorInvariant ==
    /\ [](tail = tail_count % U32 /\ tail_count <= Published)
    /\ [][tail_count' >= tail_count]_vars
    /\ [][tail' /= tail => tail_count' > tail_count]_vars
    /\ [](dev_poll <=> tail /= head)
    /\ [](w_pc \in {"read2", "cb"} => tail_count + Sub32(local_tail, tail) < Published)
    /\ [](w_pc = "poll" => local_tail = tail)
    /\ []((Synced /\ (Sub32(head, tail) < KBUF_SIZE
                        \/ (Sub32(head, tail) = KBUF_SIZE /\ isr_pc \in {"idle", "ts"})))
            => UnreadIntact)
    /\ []((Synced /\ Sub32(head, tail) > KBUF_SIZE) => ~UnreadIntact)

\* C31 witness: a restarted listener waits with one record unread, after it
\* has drained one.
C31_Witness ==
    /\ w_pc = "poll" /\ m_running /\ startHead >= 2 /\ ncb = 1
    /\ local_tail = tail /\ Sub32(head, tail) = 1 /\ tail /= 0

\* C32: every step of the thread that loads head, copies from a slot or stores
\* tail is taken with the region mapped, and every poll with the handle open;
\* the region is unmapped and the handle closed only when there is no thread,
\* so a thread, running or ended and not yet joined, always has both.
C32_NoAccessAfterRelease ==
    /\ [][(W_ResyncLoad \/ W_LoadHead \/ W_Drain \/ W_Read2 \/ W_ResyncStore \/ W_StoreTail)
            => (region_mapped /\ m_shared_buf = "mapped")]_vars
    /\ [][W_Poll => (fd_open /\ m_fd = DevFd)]_vars
    /\ [][((region_mapped /\ ~region_mapped') \/ (fd_open /\ ~fd_open'))
            => (w_pc = "none" /\ w_pc' = "none")]_vars
    /\ [](w_pc /= "none" => (fd_open /\ region_mapped))

\* C32 witness: stop() has unmapped the region of a listener whose thread had
\* handed over a record, and is about to close the handle.
C32_Witness ==
    /\ caller_pc = "close" /\ ~region_mapped /\ fd_open
    /\ w_pc = "none" /\ ncb >= 1 /\ head /= tail

\* C33: the thread ends only at the test of the flag between two waits or on
\* a fatal wait; a pass that loaded head goes on whatever the flag: it keeps
\* the head it loaded, reaches the tail store only with its local tail at that
\* head and, the callback set, one record handed over per count of [tail, h),
\* stores that head as tail, and only the test that follows, finding the flag
\* cleared, ends the thread.
C33_FlagCheckedBetweenWaits ==
    /\ [][(w_pc' = "exited" /\ w_pc /= "exited") =>
            (W_Check /\ ~m_running) \/ (W_Poll /\ poll_ret' = "error")]_vars
    /\ [][(w_pc \in {"drain", "read2", "cb"} /\ w_pc' /= w_pc) =>
            /\ w_pc' \in {"drain", "read2", "cb", "store"}
            /\ current_head' = current_head /\ tail' = tail]_vars
    /\ [](w_pc \in {"load", "drain", "read2", "cb", "store"} => ENABLED listener_thread_func)
    /\ [](w_pc = "store" =>
            /\ local_tail = current_head
            /\ (m_callback = "set" => Len(delivered) = Sub32(current_head, tail)))
    /\ [][W_StoreTail => (tail' = current_head /\ w_pc' = "loop")]_vars
    /\ [][(w_pc = "loop" /\ ~m_running /\ w_pc' /= "loop") => w_pc' = "exited"]_vars

\* C33 witness: stop() has cleared the flag and waits in join while the pass
\* that loaded head two records ahead of tail has handed both over and is
\* about to store tail.
C33_Witness ==
    /\ w_pc = "store" /\ ~m_running /\ caller_pc = "joining"
    /\ Sub32(current_head, tail) = 2 /\ Len(delivered) = 2 /\ ~lapped

\* An interrupt can still be raised within the modelled number of interrupts.
InterruptPending == \E b \in BootCounts : b <= ktime /\ ktime < b + IrqBudget(b)

\* C34: gpio_isr is never held back: it begins whenever an interrupt is
\* raised and each of its steps can be taken, whatever tail is and whether or
\* not a thread exists; it writes only the slot of head, so that at the store
\* of head that slot holds the complete new record; the store adds exactly 1
\* to head, after which the device is readable (unless all 2^32 counts are
\* unread); no step of it changes tail or anything of the listener.
C34_ProducerIgnoresConsumer ==
    /\ []((isr_pc = "idle" /\ InterruptPending) => ENABLED Isr_Enter)
    /\ [](isr_pc /= "idle" => (ENABLED gpio_isr /\ isr_head = head))
    /\ [][(Isr_WriteTs \/ Isr_WriteCounter) =>
            \A i \in Slots : i /= head % KBUF_SIZE => events'[i] = events[i]]_vars
    /\ [](isr_pc = "publish" => events[head % KBUF_SIZE] = RecordOf(ktime))
    /\ [][Isr_Publish =>
            /\ head' = Add32(head, 1)
            /\ events' = events
            /\ (dev_poll' \/ Sub32(head, tail) = U32 - 1)]_vars
    /\ [][gpio_isr => UNCHANGED <<tail, lvars, wvars>>]_vars

\* C34 witness: with a thread waiting and KBUF_SIZE + 1 records unread, the
\* handler has written the next record over an unread one and is about to
\* store head.
C34_Witness ==
    /\ isr_pc = "publish" /\ w_pc = "poll" /\ Sub32(head, tail) = KBUF_SIZE + 1
    /\ events[head % KBUF_SIZE] = RecordOf(ktime)

\* -------------------------------------------------- occupancy of the queue
\* C35: head - tail stays within 0 .. QSize; each cursor moves by one, head
\* only in push and tail only in pop; push writes a slot only after it found
\* fewer than QSize items queued, and the write leaves alone every slot of an
\* item pushed and not yet popped, the one pop is copying included.
C35_OccupancyBound ==
    /\ [](0 <= m_head - m_tail /\ m_head - m_tail <= QSize)
    /\ [][m_head' /= m_head => (push_Store /\ m_head' = m_head + 1)]_vars
    /\ [][m_tail' /= m_tail => (pop_Store /\ m_tail' = m_tail + 1)]_vars
    /\ [](push_pc \in {"write", "store"} =>
            (push_current_head = m_head /\ m_head - m_tail < QSize))
    /\ [](pop_pc \in {"read", "store"} => (pop_current_tail = m_tail /\ m_tail < m_head))
    /\ [][push_Write =>
            \A k \in m_tail .. (m_head - 1) : m_data'[k % QSize] = m_data[k % QSize]]_vars

\* C35 witness: the cursors are past the first lap, one item is queued and pop
\* is copying it while push is about to write the other slot.
C35_Witness ==
    /\ push_pc = "write" /\ pop_pc = "read"
    /\ m_head >= QSize /\ m_head - m_tail = QSize - 1

\* ------------------------------------ kernel module v1.0: eviction and read()
\* Records between k_tail and k_head, as the cursors count them.
UnreadV1 == (k_head - k_tail + KBUF_SIZE_V1) % KBUF_SIZE_V1

\* What gpio_isr of v1.0 guarantees by itself: the appended record is the
\* newest, the oldest is dropped exactly when k_head reached k_tail, and the
\* buffer is not empty after the interrupt.
IsrEvictsOldest ==
    [][gpio_isr_v1 =>
        /\ k_head' /= k_tail'
        /\ k_buffer'[k_head] = k_written'[Len(k_written')]
        /\ k_tail' = (IF UnreadV1 = KBUF_SIZE_V1 - 1 THEN (k_tail + 1) % KBUF_SIZE_V1 ELSE k_tail)]_vars

\* C36: after every interrupt of the v1.0 module the buffer is not empty and
\* k_tail has moved exactly when k_head reached it; at most KBUF_SIZE - 1
\* records are unread; and the records read() returns carry strictly
\* increasing event_counter values.
C36_EvictOldest ==
    /\ IsrEvictsOldest
    /\ [](UnreadV1 <= KBUF_SIZE_V1 - 1)
    /\ [](\A i, j \in 1 .. Len(rd_returned) :
            i < j => rd_returned[i].event_counter < rd_returned[j].event_counter)

\* C36, the failing case: far from the wrap of the counter, read() has
\* returned a record whose event_counter is not above that of the record it
\* returned before.
C36_Witness ==
    /\ v1_ktime < ReadIrqs + 1
    /\ Len(rd_returned) >= 2
    /\ rd_returned[Len(rd_returned)].event_counter
         <= rd_returned[Len(rd_returned) - 1].event_counter

\* C37: dev_read takes a record and advances k_tail only in a state with
\* k_head /= k_tail, whether or not its wait was ended by a signal, so every
\* record it returns was written by gpio_isr and not returned before.
C37_ReadOnlyWhenAvailable ==
    /\ [][dev_read_Take => k_head /= k_tail]_vars
    /\ [](Len(rd_returned) <= Len(k_written))

\* C37, the failing case: a read() whose wait was ended by a signal has taken
\* a slot with k_head = k_tail and returned it; k_tail is one past k_head and
\* more records were returned than were ever written.
C37_Witness ==
    /\ rd_pc = "idle" /\ rd_ret = "record" /\ rd_interrupted /\ rd_on_empty
    /\ k_tail = (k_head + 1) % KBUF_SIZE_V1
    /\ v1_ktime = 1 /\ Len(rd_returned) = 2

\* ------------------------------------------- the listener that uses read()
\* C38: the thread calls read() only after a poll() that reported the device
\* readable, and once per such poll(); when it is back at the test of the
\* flag the callback, if one is set, has been invoked once with the record
\* read if read() returned sizeof(GpioIrqEvent), and not at all otherwise;
\* after a short or failed read() the thread goes back to the test of the
\* flag and, the flag set, into the next poll(); it ends only at that test with
\* the flag cleared or on a poll() error other than EINTR.
C38_OneReadPerWakeup ==
    /\ [](bm_pc = "read" => (bm_ret = "ready" /\ bm_reads = 0 /\ bm_invoked = 0))
    /\ [](bm_pc = "dispatch" => (bm_ret = "ready" /\ bm_reads = 1 /\ bm_invoked = 0))
    /\ []((bm_pc = "loop" /\ bm_ret = "ready") =>
            /\ bm_reads = 1
            /\ bm_invoked = (IF bytes_read = sizeof_GpioIrqEvent /\ bm_callback = "set" THEN 1 ELSE 0)
            /\ (bm_invoked = 1 => bm_received = bm_event_data))
    /\ []((bm_pc \in {"loop", "poll"} /\ bm_ret /= "ready") => (bm_reads = 0 /\ bm_invoked = 0))
    /\ [][(bm_pc = "dispatch" /\ bm_pc' /= "dispatch") => bm_pc' = "loop"]_vars
    /\ [][(bm_pc = "loop" /\ bm_running /\ bm_pc' /= "loop") => bm_pc' = "poll"]_vars
    /\ [](bm_pc \in {"loop", "poll", "read", "dispatch"} => ENABLED bm_listener_thread_func)
    /\ [][(bm_pc' = "exited" /\ bm_pc /= "exited") =>
            (bm_pc = "loop" /\ ~bm_running) \/ (bm_pc = "poll" /\ bm_ret' = "error")]_vars

\* C38 witness: after a read() that returned fewer bytes than a record the
\* thread, its callback set and never invoked for that wakeup, is waiting again.
C38_Witness ==
    /\ bm_pc = "poll" /\ bm_running /\ bm_callback = "set"
    /\ bm_ret = "ready" /\ bm_reads = 1 /\ bytes_read = sizeof_GpioIrqEvent - 8
    /\ bm_invoked = 0 /\ dev_poll_v1

\* --------------------------------------- the benchmark's dropped-event counter
\* The missing sequence numbers of the events consumed so far.
MissingNumbers ==
    Sub32(Add32(Sub32(popped[consumed].event_counter, popped[1].event_counter), 1),
          consumed % U32)

\* The counter is right for every series that does not begin with event_counter 0.
DroppedRightUnlessZeroFirst ==
    (consumed >= 1 /\ popped[1].event_counter /= 0) => dropped_events = MissingNumbers

\* C39: after any number of events of a strictly increasing series,
\* dropped_events = (last counter - first counter + 1) - events consumed in
\* u32 arithmetic, and it is 0 while the counters are consecutive.
C39_DroppedEqualsMissing ==
    consumed >= 1 =>
        /\ dropped_events = MissingNumbers
        /\ ((\A i \in 2 .. consumed :
                popped[i].event_counter = Add32(popped[i - 1].event_counter, 1))
              => dropped_events = 0)

\* C39, the failing case: the first event carried event_counter 0, the second
\* 2: one number is missing and dropped_events is 0.
C39_Witness ==
    /\ consumed = 2 /\ popped[1].event_counter = 0 /\ popped[2].event_counter = 2
    /\ MissingNumbers = 1 /\ dropped_events = 0

====
